---- MODULE Spec2Model ----
(***************************************************************************)
(* Recurrence expansion and batch normalisation of calendar events         *)
(* (src/src/data/parsers/calendar_parser.py).                              *)
(*                                                                         *)
(* Time is counted in seconds of wall clock since 2025-01-01T00:00:00.     *)
(* A Timestamp is [wall, aware, off]: the wall-clock reading, whether it   *)
(* carries a timezone, and that timezone's offset from UTC in seconds.     *)
(***************************************************************************)
EXTENDS Integers, Sequences, FiniteSets, TLC

VARIABLES
    row,              \* expand_recurring_event: the row it is called with
    xpc,              \* expand_recurring_event: "call" before, "return" after
    expanded,         \* expand_recurring_event: what the call produced
    df,               \* process_*: the rows the query returned
    source,           \* process_*: "calendar" or "tutoring"
    pc,               \* process_*: position in the function
    todo,             \* process_*: grouped rows still to expand, in loop order
    expanded_events,  \* process_*: the list being built
    result,           \* process_*: the returned frame, or the raised error
    fetched,          \* process_*: what the query returned, before filtering
    keyed,            \* get_event_key: two occurrences and their keys
    sync              \* Base44SyncHandler.process_reports and the remote store

vars ==
    <<row, xpc, expanded, df, source, pc, todo, expanded_events, result,
      fetched, keyed, sync>>

(***************************************************************************)
(* Calendar arithmetic (datetime / pandas.Timestamp)                       *)
(***************************************************************************)
Minute == 60 * 1
Hour == 60 * Minute
Day == 24 * Hour
Week == 7 * Day

\* Years the calendar of the model covers, 2025 onwards (all of 365 days).
CalendarYears == 3
YearLen == 360 + 5
CalendarEnd == CalendarYears * YearLen * Day

MonthLen == <<31, 28, 31, 30, 31, 30, 31, 31, 30, 31, 30, 31>>
CumDays == <<0, 31, 59, 90, 120, 151, 181, 212, 243, 273, 304, 334>>

\* Monday = 0 ... Sunday = 6; 2025-01-01 (day 0) is a Wednesday.
Weekday(d) == (d + 2) % 7
WeekIdx(d) == (d + 2) \div 7
YearIdx(d) == d \div YearLen
MonthOfYear(d) ==
    CHOOSE m \in 1..12 :
        /\ CumDays[m] <= d % YearLen
        /\ d % YearLen < CumDays[m] + MonthLen[m]
MonthIdx(d) == 12 * YearIdx(d) + (MonthOfYear(d) - 1)
DayOfMonth(d) == (d % YearLen) - CumDays[MonthOfYear(d)] + 1
DaysBeforeMonth(mi) == YearLen * (mi \div 12) + CumDays[(mi % 12) + 1]

\* Timestamp.date(): the calendar date of the wall-clock reading.
DateOf(wall) == wall \div Day
TimeOfDay(wall) == wall % Day

\* 2025-MM-DDTHH:MM:SS as wall seconds.
At(month, dom, h, m, s) ==
    (CumDays[month] + dom - 1) * Day + h * Hour + m * Minute + s

TS(wall, aware, off) == [wall |-> wall, aware |-> aware, off |-> off]
Utc(wall) == TS(wall, TRUE, 0)
Naive(wall) == TS(wall, FALSE, 0)

\* The absolute instant of an aware Timestamp, in UTC seconds.
Instant(ts) == ts.wall - ts.off

tz_convert_utc(ts) == TS(ts.wall - ts.off, TRUE, 0)
tz_localize_utc(ts) == TS(ts.wall, TRUE, 0)
tz_localize_none(ts) == TS(ts.wall, FALSE, 0)

\* Timestamp + Timedelta keeps the timezone.
Plus(ts, delta) == TS(ts.wall + delta, ts.aware, ts.off)

(***************************************************************************)
(* dateutil.rrule.rrule(freq, interval, dtstart, until, byweekday, count)  *)
(* as the parser calls it: only these arguments are ever passed.           *)
(***************************************************************************)
YEARLY == "YEARLY"
MONTHLY == "MONTHLY"
WEEKLY == "WEEKLY"
DAILY == "DAILY"
HOURLY == "HOURLY"
MINUTELY == "MINUTELY"
SECONDLY == "SECONDLY"

DateFreqs == {YEARLY, MONTHLY, WEEKLY, DAILY}

UnitOf(freq) ==
    CASE freq = HOURLY -> Hour
      [] freq = MINUTELY -> Minute
      [] freq = SECONDLY -> 1
      [] OTHER -> Day

\* The members of S, all within lo..hi, in ascending order.
RECURSIVE SortedSeq(_, _, _)
SortedSeq(S, lo, hi) ==
    IF S = {} THEN <<>>
    ELSE IF lo >= hi THEN <<lo>>
    ELSE LET mid == (lo + hi) \div 2
         IN SortedSeq({x \in S : x <= mid}, lo, mid)
            \o SortedSeq({x \in S : x > mid}, mid + 1, hi)

\* The least length of one period of a rule of the frequency.
PeriodLen(freq) ==
    CASE freq = YEARLY -> YearLen * Day
      [] freq = MONTHLY -> 28 * Day
      [] freq = WEEKLY -> Week
      [] OTHER -> UnitOf(freq)

\* The days of the p-th period of the rule, counted from dtstart's period.
PeriodDays(a, p) ==
    LET d0 == DateOf(a.dtstart)
    IN CASE a.freq = YEARLY ->
              LET y == YearIdx(d0) + p * a.interval
              IN (y * YearLen) .. (y * YearLen + YearLen - 1)
         [] a.freq = MONTHLY ->
              LET mi == MonthIdx(d0) + p * a.interval
              IN DaysBeforeMonth(mi) .. (DaysBeforeMonth(mi + 1) - 1)
         [] a.freq = WEEKLY ->
              LET w == WeekIdx(d0) + p * a.interval
              IN (7 * w - 2) .. (7 * w + 4)
         [] OTHER -> {d0 + p * a.interval}

\* The by-rules in force: BYDAY when given, else the defaults taken from
\* dtstart (month and day for YEARLY, day for MONTHLY, weekday for WEEKLY).
DayMatches(a, d) ==
    LET d0 == DateOf(a.dtstart)
    IN IF a.byweekday # {} THEN Weekday(d) \in a.byweekday
       ELSE CASE a.freq = YEARLY ->
                   /\ MonthOfYear(d) = MonthOfYear(d0)
                   /\ DayOfMonth(d) = DayOfMonth(d0)
              [] a.freq = MONTHLY -> DayOfMonth(d) = DayOfMonth(d0)
              [] a.freq = WEEKLY -> Weekday(d) = Weekday(d0)
              [] OTHER -> TRUE

\* The first day of the p-th period.
PeriodStart(a, p) ==
    LET d0 == DateOf(a.dtstart)
    IN CASE a.freq = YEARLY -> (YearIdx(d0) + p * a.interval) * YearLen
         [] a.freq = MONTHLY -> DaysBeforeMonth(MonthIdx(d0) + p * a.interval)
         [] a.freq = WEEKLY -> 7 * (WeekIdx(d0) + p * a.interval) - 2
         [] OTHER -> d0 + p * a.interval

\* The instants the p-th period contributes, ascending: the matching days
\* at dtstart's time of day, or the one instant of a clock-frequency period.
PeriodInstants(a, p) ==
    IF a.freq \in DateFreqs
    THEN LET days == SortedSeq({x \in PeriodDays(a, p) : DayMatches(a, x)},
                               PeriodStart(a, p), PeriodStart(a, p) + YearLen)
         IN [i \in 1..Len(days) |-> days[i] * Day + TimeOfDay(a.dtstart)]
    ELSE LET t == a.dtstart + p * a.interval * UnitOf(a.freq)
         IN IF a.byweekday = {} \/ Weekday(DateOf(t)) \in a.byweekday
            THEN <<t>> ELSE <<>>

\* The earliest instant the p-th period can contribute.
PeriodFloor(a, p) ==
    IF a.freq \in DateFreqs
    THEN PeriodStart(a, p) * Day + TimeOfDay(a.dtstart)
    ELSE a.dtstart + p * a.interval * UnitOf(a.freq)

Take(s, n) == IF Len(s) <= n THEN s ELSE SubSeq(s, 1, n)

\* rrule._iter with count: period after period, results before dtstart
\* dropped, until count results have been produced.
RECURSIVE rrule_count(_, _, _)
rrule_count(a, p, acc) ==
    IF Len(acc) >= a.count THEN Take(acc, IF a.count < 0 THEN 0 ELSE a.count)
    ELSE IF PeriodFloor(a, p) >= CalendarEnd THEN acc
    ELSE LET keep(t) == t >= a.dtstart
         IN rrule_count(a, p + 1, acc \o SelectSeq(PeriodInstants(a, p), keep))

\* rrule._iter with until, the instant equal to until left out.
RECURSIVE rrule_until_exclusive(_, _, _)
rrule_until_exclusive(a, lo, hi) ==
    IF lo > hi THEN <<>>
    ELSE IF lo = hi
    THEN LET keep(t) == t >= a.dtstart /\ t < a.until
         IN SelectSeq(PeriodInstants(a, lo), keep)
    ELSE LET mid == (lo + hi) \div 2
         IN rrule_until_exclusive(a, lo, mid) \o rrule_until_exclusive(a, mid + 1, hi)

\* rrule._iter with until: the results of the periods lo..hi that are not
\* before dtstart and not after until, in order.
RECURSIVE rrule_until(_, _, _)
rrule_until(a, lo, hi) ==
    IF lo > hi THEN <<>>
    ELSE IF lo = hi
    THEN LET keep(t) == t >= a.dtstart /\ t <= a.until
         IN SelectSeq(PeriodInstants(a, lo), keep)
    ELSE LET mid == (lo + hi) \div 2
         IN rrule_until(a, lo, mid) \o rrule_until(a, mid + 1, hi)

\* The last period that can start at or before until.
LastPeriod(a) ==
    IF a.until < a.dtstart THEN 0
    ELSE (a.until - a.dtstart) \div (a.interval * PeriodLen(a.freq)) + 1

\* rrule that yields dtstart even when until is before it.
rrule_list_with_anchor(a) ==
    IF a.hasCount THEN rrule_count(a, 0, <<>>)
    ELSE IF a.until < a.dtstart THEN <<a.dtstart>>
    ELSE rrule_until(a, 0, LastPeriod(a))

\* list(rrule.rrule(...)): wall-clock instants, in dtstart's timezone.
rrule_list(a) ==
    IF a.hasCount THEN rrule_count(a, 0, <<>>)
    ELSE rrule_until(a, 0, LastPeriod(a))

RArgs(freq, interval, dtstart, hasUntil, until, byweekday, hasCount, count) ==
    [freq |-> freq, interval |-> interval, dtstart |-> dtstart,
     hasUntil |-> hasUntil, until |-> until, byweekday |-> byweekday,
     hasCount |-> hasCount, count |-> count]

(***************************************************************************)
(* Values as the query returns them                                        *)
(***************************************************************************)
\* None in a text column.
None == "None"

\* A timestamp cell: kind "null" is None, "ts" a value pandas parses to ts,
\* "bad" a string pandas cannot parse, "nat" a string it parses to NaT.
Cell(kind, ts) == [kind |-> kind, ts |-> ts]
Null == Cell("null", Naive(0))
V(ts) == Cell("ts", ts)
Bad == Cell("bad", Naive(0))
NaTStr == Cell("nat", Naive(0))

\* pd.to_datetime(value)
to_datetime(v) ==
    [raised |-> v.kind = "bad", isna |-> v.kind \in {"null", "nat"}, ts |-> v.ts]

\* An rrule string, as the text
\*   [pad] ["DTSTART:" dtstart ["\nRRULE:"]] part ";" part ... [pad]
\* where a part is key sep value and sep is "=", ":" or missing, and pad is
\* surrounding whitespace or double quotes. null is None instead of a string.
Part(key, sep, value) == [key |-> key, sep |-> sep, value |-> value]
EmptyPart == Part("", "", "")
RruleStr(prefix, dtstart, parts, pad) ==
    [null |-> FALSE, pad |-> pad, prefix |-> prefix, dtstart |-> dtstart,
     parts |-> parts]
RruleNone ==
    [null |-> TRUE, pad |-> FALSE, prefix |-> "none", dtstart |-> Null,
     parts |-> <<EmptyPart>>]
RruleEmpty == RruleStr("none", Null, <<EmptyPart>>, FALSE)

\* Truthy as "is not None": the empty string taken for a rule.
Truthy_not_none(r) == ~r.null

\* Python's truth value of the rrule cell: None and "" are false.
Truthy(r) ==
    /\ ~r.null
    /\ ~(r.prefix = "none" /\ ~r.pad /\ r.parts = <<EmptyPart>>)

\* An exclusion list cell: None, or a list of date-only values (day numbers).
ExList(dates) == [null |-> FALSE, dates |-> dates]
ExNone == [null |-> TRUE, dates |-> <<>>]

(***************************************************************************)
(* parse_rrule                                                             *)
(***************************************************************************)
Put(params, key, value) ==
    [k \in DOMAIN params \cup {key} |-> IF k = key THEN value ELSE params[k]]
Get(params, key, default) ==
    IF key \in DOMAIN params THEN params[key] ELSE default
EmptyDict == [k \in {} |-> ""]

\* The loop over rrule_str.split(';'): a part holding ':' is split there,
\* any other part is split at '=', and unpacking fails when it has none.
RECURSIVE parse_parts(_, _, _)
parse_parts(parts, i, params) ==
    IF i > Len(parts) THEN [raised |-> "none", params |-> params]
    ELSE IF parts[i].sep \in {":", "="}
         THEN parse_parts(parts, i + 1, Put(params, parts[i].key, parts[i].value))
         ELSE [raised |-> "ValueError", params |-> params]

\* The result holds params['DTSTART'] as dtstart (Null without one).
parse_rrule(r) ==
    IF ~Truthy(r)
    THEN [raised |-> "none", none |-> TRUE, params |-> EmptyDict, dtstart |-> Null]
    ELSE IF r.prefix = "dtstart_only"
         \* split('\nRRULE:', 1) gives one piece: unpacking two fails
         THEN [raised |-> "ValueError", none |-> FALSE, params |-> EmptyDict,
               dtstart |-> Null]
    ELSE IF r.prefix = "dtstart" /\ to_datetime(r.dtstart).raised
         THEN [raised |-> "ValueError", none |-> FALSE, params |-> EmptyDict,
               dtstart |-> Null]
    ELSE LET p == parse_parts(r.parts, 1, EmptyDict)
         IN [raised |-> p.raised, none |-> FALSE, params |-> p.params,
             dtstart |-> IF r.prefix = "dtstart" THEN r.dtstart ELSE Null]

(***************************************************************************)
(* expand_recurring_event                                                  *)
(***************************************************************************)
\* int(s) for the numerals that occur; any other string raises ValueError.
IntTable == ("1" :> 1) @@ ("2" :> 2) @@ ("3" :> 3) @@ ("4" :> 4)
IsInt(s) == s \in DOMAIN IntTable
IntOf(s) == IntTable[s]

\* byday.split(','), then day[:2].upper() of each piece.
SplitComma(s) ==
    CASE s = "MO,WE" -> <<"MO", "WE">>
      [] s = "tu,th" -> <<"tu", "th">>
      [] s = "MO,XX" -> <<"MO", "XX">>
      [] OTHER -> <<s>>
Upper2(tok) ==
    CASE tok = "tu" -> "TU"
      [] tok = "th" -> "TH"
      [] tok = "FRI" -> "FR"
      [] OTHER -> tok
\* getattr(rrule, name): the weekday constants of dateutil.rrule.
WeekdayNames == <<"MO", "TU", "WE", "TH", "FR", "SA", "SU">>
IsWeekdayName(n) == \E i \in 1..7 : WeekdayNames[i] = n
WeekdayNo(n) == (CHOOSE i \in 1..7 : WeekdayNames[i] = n) - 1

\* freq_map with DAILY for what it does not hold.
freq_map_daily(freq) ==
    IF freq \in {YEARLY, MONTHLY, WEEKLY, DAILY, HOURLY, MINUTELY, SECONDLY}
    THEN freq ELSE DAILY

\* freq_map.get(freq, rrule.WEEKLY)
freq_map(freq) ==
    IF freq \in {YEARLY, MONTHLY, WEEKLY, DAILY, HOURLY, MINUTELY, SECONDLY}
    THEN freq ELSE WEEKLY

\* default_until = pd.to_datetime('2025-05-31T23:59:59Z')
default_until == Utc(At(5, 31, 23, 59, 59))

\* dates[:n] left out, and dates[:n + 1].
SliceTo_none(s, n) == s
SliceTo_off_by_one(s, n) == Take(s, n + 1)

\* dates[:n]
SliceTo(s, n) ==
    IF n >= 0 THEN Take(s, n)
    ELSE Take(s, IF Len(s) + n > 0 THEN Len(s) + n ELSE 0)

Min(x, y) == IF x <= y THEN x ELSE y

InSeq(x, s) == \E i \in 1..Len(s) : s[i] = x

\* What a call produced: the exception raised ("none" when it returned),
\* the returned list, and the locals of the call that the properties of
\* the expansion are stated about.
Returned(events, recurring, start, duration, until, count_end, dates) ==
    [raised |-> "none", events |-> events, recurring |-> recurring,
     event_start |-> start, duration |-> duration, until |-> until,
     count_end |-> count_end, dates |-> dates]
Raised(kind) ==
    [raised |-> kind, events |-> <<>>, recurring |-> FALSE,
     event_start |-> Naive(0), duration |-> 0, until |-> Naive(0),
     count_end |-> 0, dates |-> <<>>]
Single(r) == Returned(<<r>>, FALSE, Naive(0), 0, Naive(0), 0, <<>>)

\* resolve_until without the isna test of line 83.
resolve_until_keeps_nat(r, start) ==
    LET u == to_datetime(r.rrule_until)
        until == IF r.rrule_until.kind = "null" \/ u.raised
                 THEN default_until ELSE u.ts
    IN IF start.aware
       THEN IF ~until.aware THEN tz_localize_utc(until) ELSE tz_convert_utc(until)
       ELSE IF until.aware THEN tz_localize_none(until) ELSE until

\* resolve_until with the default taken for an rrule_until before the start.
resolve_until_falls_back(r, start) ==
    LET u == to_datetime(r.rrule_until)
        until == IF r.rrule_until.kind = "null" \/ u.raised \/ u.isna
                    \/ u.ts.wall < start.wall
                 THEN default_until ELSE u.ts
    IN IF start.aware
       THEN IF ~until.aware THEN tz_localize_utc(until) ELSE tz_convert_utc(until)
       ELSE IF until.aware THEN tz_localize_none(until) ELSE until

\* resolve_until without lines 88-101.
resolve_until_as_given(r, start) ==
    LET u == to_datetime(r.rrule_until)
    IN IF r.rrule_until.kind = "null" \/ u.raised \/ u.isna
       THEN default_until ELSE u.ts

\* Lines 74-101: the termination instant from rrule_until or the default,
\* brought to the awareness of event_start.
resolve_until(r, start) ==
    LET u == to_datetime(r.rrule_until)
        until == IF r.rrule_until.kind = "null" \/ u.raised \/ u.isna
                 THEN default_until ELSE u.ts
    IN IF start.aware
       THEN IF ~until.aware THEN tz_localize_utc(until) ELSE tz_convert_utc(until)
       ELSE IF until.aware THEN tz_localize_none(until) ELSE until

\* count_dates one occurrence short.
count_dates_short(freq, interval, start, count) ==
    rrule_list(RArgs(freq, interval, start.wall, FALSE, 0, {}, TRUE, count - 1))

\* Lines 115-127: the instant at which COUNT occurrences end.
count_dates(freq, interval, start, count) ==
    rrule_list(RArgs(freq, interval, start.wall, FALSE, 0, {}, TRUE, count))

\* make_events without the shift of end_time.
make_events_fixed_end(r, dates, ex_dates, duration, start) ==
    LET keep(date) == ~InSeq(DateOf(date), ex_dates)
        kept == SelectSeq(dates, keep)
    IN [i \in 1..Len(kept) |->
          [r EXCEPT !.start_time = V(TS(kept[i], start.aware, 0))]]

\* make_events comparing the instant, not its date, with the exclusions.
make_events_by_instant(r, dates, ex_dates, duration, start) ==
    LET keep(date) == ~InSeq(date, [i \in 1..Len(ex_dates) |-> ex_dates[i] * Day])
        kept == SelectSeq(dates, keep)
    IN [i \in 1..Len(kept) |->
          [r EXCEPT !.start_time = V(TS(kept[i], start.aware, 0)),
                    !.end_time = V(TS(kept[i] + duration, start.aware, 0))]]

\* make_events with occurrences that no longer carry the rule.
make_events_without_rule(r, dates, ex_dates, duration, start) ==
    LET keep(date) == ~InSeq(DateOf(date), ex_dates)
        kept == SelectSeq(dates, keep)
    IN [i \in 1..Len(kept) |->
          [r EXCEPT !.start_time = V(TS(kept[i], start.aware, 0)),
                    !.end_time = V(TS(kept[i] + duration, start.aware, 0)),
                    !.rrule = RruleNone]]

\* Lines 141-149: one event per date that is on no excluded date.
make_events(r, dates, ex_dates, duration, start) ==
    LET keep(date) == ~InSeq(DateOf(date), ex_dates)
        kept == SelectSeq(dates, keep)
    IN [i \in 1..Len(kept) |->
          [r EXCEPT !.start_time = V(TS(kept[i], start.aware, 0)),
                    !.end_time = V(TS(kept[i] + duration, start.aware, 0))]]

\* [pd.to_datetime(d).date() for d in rrule_ex_date]
ex_dates_of(r) ==
    IF r.rrule_ex_date.null THEN <<>>
    ELSE [i \in 1..Len(r.rrule_ex_date.dates) |->
            DateOf(r.rrule_ex_date.dates[i] * Day)]

\* The anchor taken from the DTSTART of the rule when it has one.
anchor_cell_embedded(r, parsed) ==
    IF parsed.dtstart.kind = "ts" THEN parsed.dtstart ELSE r.start_time

\* Lines 48 and 107: the anchor is the row's start_time, never the DTSTART
\* of the rule.
anchor_cell(r, parsed) == r.start_time

expand_recurring_event(r) ==
    IF ~Truthy(r.rrule) THEN Single(r)
    ELSE LET parsed == parse_rrule(r.rrule) IN
    IF parsed.raised # "none" THEN Raised(parsed.raised)
    ELSE IF parsed.none \/ DOMAIN parsed.params = {} THEN Single(r)
    ELSE LET s == to_datetime(anchor_cell(r, parsed))
             e == to_datetime(r.end_time) IN
    IF s.raised \/ e.raised THEN Raised("ValueError")
    ELSE LET duration == Instant(e.ts) - Instant(s.ts)
             freq == Get(parsed.params, "FREQ", WEEKLY)
             interval_s == Get(parsed.params, "INTERVAL", "1")
             byday_s == Get(parsed.params, "BYDAY", "")
             count_s == Get(parsed.params, "COUNT", "") IN
    IF ~IsInt(interval_s) THEN Raised("ValueError")
    ELSE LET interval == IntOf(interval_s)
             tokens == IF byday_s = "" THEN <<>> ELSE SplitComma(byday_s)
             names == [i \in 1..Len(tokens) |-> Upper2(tokens[i])] IN
    IF \E i \in 1..Len(names) : ~IsWeekdayName(names[i]) THEN Raised("AttributeError")
    ELSE LET byday == {WeekdayNo(names[i]) : i \in 1..Len(names)}
             event_start == IF s.ts.aware THEN tz_convert_utc(s.ts) ELSE s.ts
             until == resolve_until(r, s.ts) IN
    IF count_s # "" /\ ~IsInt(count_s) THEN Raised("ValueError")
    ELSE LET hasCount == count_s # ""
             count == IF hasCount THEN IntOf(count_s) ELSE 0
             cd == IF hasCount
                   THEN count_dates(freq_map(freq), interval, event_start, count)
                   ELSE <<>>
             count_end == IF cd # <<>> THEN cd[Len(cd)] ELSE 0
             until_wall == IF cd # <<>> THEN Min(count_end, until.wall)
                           ELSE until.wall
             until_arg == IF cd # <<>> /\ count_end <= until.wall
                          THEN TS(count_end, event_start.aware, 0)
                          ELSE until
             all == rrule_list(RArgs(freq_map(freq), interval, event_start.wall,
                                     TRUE, until_wall, byday, FALSE, 0))
             dates == IF hasCount THEN SliceTo(all, count) ELSE all
         IN \* min() of an aware and a naive instant is a TypeError, and
            \* rrule refuses an until whose awareness is not dtstart's.
            IF event_start.aware # until.aware
            THEN Raised(IF cd # <<>> THEN "TypeError" ELSE "ValueError")
            ELSE Returned(make_events(r, dates, ex_dates_of(r), duration, event_start),
                          TRUE, event_start, duration, until_arg, count_end, dates)

(***************************************************************************)
(* Rows                                                                    *)
(***************************************************************************)
Row(id, gid, deleted_at, title, start, end, rr, until, ex) ==
    [ms_event_id |-> id, email |-> "a@x.org", name |-> "A B", title |-> title,
     start_time |-> start, end_time |-> end, deleted_at |-> deleted_at,
     recurring_group_id |-> gid, rrule |-> rr, rrule_tzid |-> None,
     rrule_until |-> until, rrule_ex_date |-> ex]

\* "FREQ=f;INTERVAL=i;BYDAY=b;COUNT=c" with the parts given as "-" left out.
Rule(f, i, b, c) ==
    LET present(p) == p.value # "-"
        parts == SelectSeq(<<Part("FREQ", "=", f), Part("INTERVAL", "=", i),
                             Part("BYDAY", "=", b), Part("COUNT", "=", c)>>, present)
    IN RruleStr("none", Null, IF parts = <<>> THEN <<EmptyPart>> ELSE parts, FALSE)

\* Anchors: Mon 2025-01-06T09:00Z; Tue 2025-05-20T01:00+02:00 (Monday the
\* 19th, 23:00, in UTC); naive Mon 2025-05-12T10:00; Fri 2025-01-31T09:00Z.
Starts ==
    {Utc(At(1, 6, 9, 0, 0)), TS(At(5, 20, 1, 0, 0), TRUE, 2 * Hour),
     Naive(At(5, 12, 10, 0, 0)), Utc(At(1, 31, 9, 0, 0))}

\* rrule_until: none; the date 2025-01-10; 2025-01-20T09:00Z and
\* 2025-05-27T01:00+02:00 (each on a weekly candidate of an anchor); a
\* value that parses to NaT; a value that does not parse.
Untils ==
    {Null, V(Naive(At(1, 10, 0, 0, 0))), V(Utc(At(1, 20, 9, 0, 0))),
     V(TS(At(5, 27, 1, 0, 0), TRUE, 2 * Hour)), NaTStr, Bad}

\* rrule_ex_date: None; 2025-01-13; 2025-01-06, 2025-05-19 and 2025-05-12.
ExLists == {ExNone, ExList(<<12>>), ExList(<<5, 138, 131>>)}

DateRules ==
    {Rule(f, i, b, c) :
        f \in {"-", WEEKLY, DAILY, MONTHLY, YEARLY},
        i \in {"-", "2"}, b \in {"-", "MO,WE", "tu,th"}, c \in {"-", "3"}}
    \cup {Rule(WEEKLY, "1", "-", "3"), Rule("BOGUS", "-", "-", "2")}

ClockRules ==
    {Rule(f, i, b, c) :
        f \in {HOURLY, MINUTELY, SECONDLY},
        i \in {"-", "2"}, b \in {"-", "MO"}, c \in {"-", "3"}}

\* Strings for which parse_rrule or the conversions that follow it raise,
\* and strings that are not None but empty.
OddRules ==
    {RruleNone, RruleEmpty,
     RruleStr("none", Null, <<EmptyPart>>, TRUE),
     RruleStr("none", Null, <<Part("FREQ", "=", WEEKLY), EmptyPart>>, FALSE),
     RruleStr("none", Null, <<Part("WEEKLY", "", "")>>, FALSE),
     RruleStr("dtstart_only", V(Utc(At(1, 6, 9, 0, 0))),
              <<Part("FREQ", "=", WEEKLY)>>, FALSE),
     RruleStr("dtstart", Bad, <<Part("FREQ", "=", WEEKLY)>>, FALSE),
     RruleStr("dtstart", V(Utc(At(2, 3, 9, 0, 0))),
              <<Part("FREQ", "=", WEEKLY), Part("COUNT", "=", "2")>>, FALSE),
     RruleStr("none", Null, <<Part("RRULE", ":", "FREQ=DAILY")>>, FALSE),
     Rule(WEEKLY, "x", "-", "-"), Rule(WEEKLY, "-", "-", "abc"),
     Rule(WEEKLY, "-", "MO,XX", "-"), Rule(DAILY, "-", "FRI", "2")}

\* The longest enumeration the model follows, in periods of the rule.
MaxPeriods == 60

\* The rule's periods between the anchor and the horizon or rrule_until.
Span(r) ==
    LET u == IF r.rrule_until.kind = "ts" THEN r.rrule_until.ts.wall
             ELSE default_until.wall
        f == Get(parse_parts(r.rrule.parts, 1, EmptyDict).params, "FREQ", WEEKLY)
    IN IF r.start_time.kind # "ts" \/ u <= r.start_time.ts.wall THEN 0
       ELSE (u - r.start_time.ts.wall) \div PeriodLen(freq_map(f))

HasCount(r) == \E i \in 1..Len(r.rrule.parts) : r.rrule.parts[i].key = "COUNT"

\* The occurrences COUNT asks for lie within the calendar of the model.
WithinCalendar(r) ==
    LET q == parse_parts(r.rrule.parts, 1, EmptyDict).params
    IN (Get(q, "FREQ", WEEKLY) = YEARLY /\ IsInt(Get(q, "COUNT", "1"))
        /\ IsInt(Get(q, "INTERVAL", "1")))
       => (IntOf(Get(q, "COUNT", "1")) - 1) * IntOf(Get(q, "INTERVAL", "1"))
            < CalendarYears

\* Rows apart from the product: a start that does not parse, a start after
\* the default horizon, a duration of ninety minutes, an empty exclusion
\* list, rules with keys other than FREQ, INTERVAL, BYDAY and COUNT.
ExtraRows ==
    {Row("e1", "g1", Null, "Python - Loops", Bad, V(Utc(At(1, 6, 10, 0, 0))),
         rr, Null, ExNone) : rr \in {RruleNone, Rule(WEEKLY, "-", "-", "-")}}
    \cup {Row("e1", "g1", Null, "Python - Loops",
              V(TS(At(6, 10, 1, 0, 0), TRUE, 2 * Hour)),
              V(TS(At(6, 10, 2, 0, 0), TRUE, 2 * Hour)), rr, Null, ExNone) :
              rr \in {RruleNone, RruleEmpty, Rule(WEEKLY, "-", "-", "-")}}
    \cup {Row("e1", "g1", Null, "Python - Loops", V(Utc(At(1, 6, 9, 0, 0))),
              V(Utc(At(1, 6, 10, 30, 0))), rr, Null, ex) :
              rr \in {RruleNone, Rule(WEEKLY, "-", "-", "3"),
                      Rule(WEEKLY, "2", "-", "4"), Rule(DAILY, "2", "MO,WE", "-")},
              ex \in {ExNone, ExList(<<>>), ExList(<<7>>)}}
    \cup {Row("e1", "g1", Null, "Python - Loops", V(s), V(Plus(s, Hour)),
              RruleStr("none", Null, parts, FALSE), u, ExNone) :
              s \in {Utc(At(1, 6, 9, 0, 0)), Naive(At(5, 12, 10, 0, 0))},
              u \in {Null, V(Utc(At(1, 20, 9, 0, 0)))},
              parts \in {<<Part("WKST", "=", "SU"), Part("COUNT", "=", "2")>>,
                         <<Part("FREQ", "=", DAILY), Part("UNTIL", "=", "20250108"),
                           Part("COUNT", "=", "4")>>,
                         <<Part("FREQ", "=", "daily"), Part("COUNT", "=", "3")>>,
                         <<Part("BYMONTH", "=", "2"), Part("FREQ", "=", MONTHLY),
                           Part("COUNT", "=", "2")>>}}

RowSet ==
    {r \in {Row("e1", "g1", Null, "Python - Loops", V(s), V(Plus(s, Hour)), rr, u, ex) :
              s \in Starts, rr \in DateRules \cup ClockRules \cup OddRules,
              u \in Untils, ex \in ExLists} :
        (HasCount(r) \/ Span(r) <= MaxPeriods) /\ WithinCalendar(r)}
    \cup ExtraRows

(***************************************************************************)
(* One call of expand_recurring_event on one row                           *)
(***************************************************************************)
\* No key has been asked for.
NoKey == [pc |-> "idle"]

\* No synchronisation is under way.
NoSync == [pc |-> "idle"]

Idle ==
    /\ df = <<>>
    /\ source = "none"
    /\ pc = "idle"
    /\ todo = <<>>
    /\ expanded_events = <<>>
    /\ result = [status |-> "none", frame |-> <<>>]
    /\ fetched = <<>>
    /\ keyed = NoKey
    /\ sync = NoSync

InitExpand ==
    /\ row \in RowSet
    /\ xpc = "call"
    /\ expanded = Raised("pending")
    /\ Idle

Expand ==
    /\ xpc = "call"
    /\ expanded' = expand_recurring_event(row)
    /\ xpc' = "return"
    /\ UNCHANGED <<row, df, source, pc, todo, expanded_events, result,
                   fetched, keyed, sync>>

NextExpand == Expand

SpecExpand == InitExpand /\ [][NextExpand]_vars

(***************************************************************************)
(* process_calendar_events / process_tutoring_sessions                     *)
(***************************************************************************)
\* The keys of recurring_group_id in the order groupby yields them.
GroupIds == <<"g1", "g2">>

\* Rows of a batch; every row has its own ms_event_id.
Sc1Row ==
    Row("e1", "g1", Null, "Python - Loops", V(Utc(At(1, 6, 9, 0, 0))),
        V(Utc(At(1, 6, 10, 0, 0))), Rule(WEEKLY, "1", "-", "3"), Null, ExList(<<12>>))
BatchRows ==
    {Sc1Row,
     Row("e2", "g1", Null, "Python - Sets", V(Utc(At(1, 7, 9, 0, 0))),
         V(Utc(At(1, 7, 10, 0, 0))),
         RruleStr("none", Null, <<Part("WEEKLY", "", "")>>, FALSE), Null, ExNone),
     Row("e3", "g2", Null, "SQL", V(Utc(At(1, 8, 9, 0, 0))),
         V(Utc(At(1, 8, 10, 0, 0))), Rule(WEEKLY, "x", "-", "-"), Null, ExNone),
     Row("e4", "g2", V(Utc(At(2, 1, 0, 0, 0))), "SQL - Joins", V(Utc(At(1, 9, 9, 0, 0))),
         V(Utc(At(1, 9, 10, 0, 0))), Rule(DAILY, "-", "-", "2"), Null, ExNone),
     Row("e5", None, Null, "", V(Utc(At(1, 10, 9, 0, 0))),
         V(Utc(At(1, 10, 10, 30, 0))), RruleEmpty, Null, ExList(<<>>)),
     Row("e6", None, Null, "Office hours", V(Utc(At(1, 13, 9, 0, 0))),
         V(Utc(At(1, 13, 10, 0, 0))), Rule(WEEKLY, "-", "-", "2"), Null, ExNone),
     Row("e7", "g1", Null, None, V(Utc(At(1, 14, 9, 0, 0))),
         V(Utc(At(1, 14, 10, 0, 0))), RruleNone, Null, ExList(<<>>)),
     Row("e8", "g2", Null, "Git", Bad, V(Utc(At(1, 15, 10, 0, 0))),
         Rule(WEEKLY, "-", "-", "-"), V(Utc(At(1, 31, 0, 0, 0))), ExNone),
     Row("e9", "g1", Null, "Git - Rebase", V(Utc(At(1, 16, 9, 0, 0))),
         V(Utc(At(1, 16, 10, 0, 0))),
         RruleStr("dtstart_only", V(Utc(At(1, 16, 9, 0, 0))),
                  <<Part("FREQ", "=", DAILY)>>, FALSE), Null, ExNone),
     Row("e10", None, V(Utc(At(2, 1, 0, 0, 0))), "Retro", V(Utc(At(1, 17, 9, 0, 0))),
         V(Utc(At(1, 17, 10, 0, 0))), RruleNone, Null, ExNone),
     Row("e11", "g2", Null, "", V(Utc(At(1, 20, 9, 0, 0))),
         V(Utc(At(1, 20, 10, 0, 0))), RruleEmpty, Null, ExList(<<>>))}

\* The most rows a batch holds.
MaxRows == 2

\* The query orders by start_time descending.
OrderedDesc(rows) ==
    \A i, j \in 1..Len(rows) :
        (i < j /\ rows[i].start_time.kind = "ts" /\ rows[j].start_time.kind = "ts")
            => Instant(rows[i].start_time.ts) >= Instant(rows[j].start_time.ts)

Batches ==
    {b \in UNION {[1..n -> BatchRows] : n \in 0..MaxRows} :
        /\ \A i, j \in 1..Len(b) : i # j => b[i].ms_event_id # b[j].ms_event_id
        /\ OrderedDesc(b)}

\* isna that takes every cell for missing.
isna_all(cell) == cell.kind \in {"null", "nat", "ts", "bad"}

isna(cell) == cell.kind \in {"null", "nat"}

\* The dict comprehension with only the "value is None" test.
clean_event_none_only(e) == e

\* The dict comprehension of lines 296-301: None, '' and [] become None.
clean_event(e) ==
    [e EXCEPT !.title = IF @ = "" THEN None ELSE @,
              !.email = IF @ = "" THEN None ELSE @,
              !.name = IF @ = "" THEN None ELSE @,
              !.ms_event_id = IF @ = "" THEN None ELSE @,
              !.recurring_group_id = IF @ = "" THEN None ELSE @,
              !.rrule_tzid = IF @ = "" THEN None ELSE @,
              !.rrule = IF ~Truthy(@) /\ ~@.pad THEN RruleNone ELSE @,
              !.rrule_ex_date = IF @.null \/ @.dates = <<>> THEN ExNone ELSE @]
clean_events(events) == [i \in 1..Len(events) |-> clean_event(events[i])]

\* The grouped rows with the rule of the first row of their group.
RECURSIVE grouped_rows_master(_, _)
grouped_rows_master(rows, g) ==
    IF g > Len(GroupIds) THEN <<>>
    ELSE LET grp == SelectSeq(rows, LAMBDA r : r.recurring_group_id = GroupIds[g])
         IN [i \in 1..Len(grp) |-> [grp[i] EXCEPT !.rrule = grp[1].rrule]]
            \o grouped_rows_master(rows, g + 1)

\* groupby('recurring_group_id') then iterrows: the grouped rows, group
\* after group in key order, each group in frame order.
RECURSIVE grouped_rows(_, _)
grouped_rows(rows, g) ==
    IF g > Len(GroupIds) THEN <<>>
    ELSE SelectSeq(rows, LAMBDA r : r.recurring_group_id = GroupIds[g])
         \o grouped_rows(rows, g + 1)

single_events(rows) == SelectSeq(rows, LAMBDA r : r.recurring_group_id = None)

\* Lines 314-322: the frame with its time columns parsed and duration_hours
\* (seconds over 3600; NaN when either time is missing) added.
WithDuration(e) ==
    [event |-> e,
     duration_hours |->
        IF isna(e.start_time) \/ isna(e.end_time) THEN [nan |-> TRUE, num |-> 0, den |-> Hour]
        ELSE [nan |-> FALSE,
              num |-> Instant(e.end_time.ts) - Instant(e.start_time.ts),
              den |-> Hour]]

Running == [status |-> "running", frame |-> <<>>]

Init ==
    /\ df \in Batches
    /\ source \in {"calendar", "tutoring"}
    /\ pc = "start"
    /\ todo = <<>>
    /\ expanded_events = <<>>
    /\ result = Running
    /\ row = Sc1Row
    /\ xpc = "idle"
    /\ expanded = Raised("pending")
    /\ fetched = df
    /\ keyed = NoKey
    /\ sync = NoSync

\* Lines 280-287 / 329-336: read, drop deleted rows, split by group id.
Filter(fn) ==
    /\ source = fn /\ pc = "start"
    /\ df' = SelectSeq(df, LAMBDA r : isna(r.deleted_at))
    /\ todo' = grouped_rows(df', 1)
    /\ pc' = "expand"
    /\ UNCHANGED <<row, xpc, expanded, source, expanded_events, result,
                   fetched, keyed, sync>>

\* Lines 291-302 / 340-351: one turn of the loop over the grouped rows. An
\* exception of expand_recurring_event leaves the function.
ExpandRow(fn) ==
    /\ source = fn /\ pc = "expand" /\ todo # <<>>
    /\ row' = Head(todo)
    /\ expanded' = expand_recurring_event(Head(todo))
    /\ xpc' = "return"
    /\ todo' = Tail(todo)
    /\ IF expanded'.raised # "none"
       THEN /\ pc' = "raised"
            /\ result' = [status |-> expanded'.raised, frame |-> <<>>]
            /\ UNCHANGED expanded_events
       ELSE /\ expanded_events' = expanded_events \o clean_events(expanded'.events)
            /\ UNCHANGED <<pc, result>>
    /\ UNCHANGED <<df, source, fetched, keyed, sync>>

\* Lines 304-312 / 353-361: the rows without a group, cleaned, unexpanded.
AddSingles(fn) ==
    /\ source = fn /\ pc = "expand" /\ todo = <<>>
    /\ expanded_events' = expanded_events \o clean_events(single_events(df))
    /\ pc' = "frame"
    /\ UNCHANGED <<row, xpc, expanded, df, source, todo, result, fetched, keyed, sync>>

\* Lines 314-324 / 363-373: the frame is built and returned. An empty list
\* makes a frame without columns, and a time that does not parse raises.
ToFrame(fn) ==
    /\ source = fn /\ pc = "frame"
    /\ IF expanded_events = <<>>
       THEN pc' = "raised" /\ result' = [status |-> "KeyError", frame |-> <<>>]
       ELSE IF \E i \in 1..Len(expanded_events) :
                   \/ to_datetime(expanded_events[i].start_time).raised
                   \/ to_datetime(expanded_events[i].end_time).raised
       THEN pc' = "raised" /\ result' = [status |-> "ValueError", frame |-> <<>>]
       ELSE /\ pc' = "done"
            /\ result' = [status |-> "returned",
                          frame |-> [i \in 1..Len(expanded_events) |->
                                       WithDuration(expanded_events[i])]]
    /\ UNCHANGED <<row, xpc, expanded, df, source, todo, expanded_events,
                   fetched, keyed, sync>>

process_calendar_events ==
    \/ Filter("calendar")
    \/ ExpandRow("calendar")
    \/ AddSingles("calendar")
    \/ ToFrame("calendar")

process_tutoring_sessions ==
    \/ Filter("tutoring")
    \/ ExpandRow("tutoring")
    \/ AddSingles("tutoring")
    \/ ToFrame("tutoring")

Next == process_calendar_events \/ process_tutoring_sessions

Spec == Init /\ [][Next]_vars

(***************************************************************************)
(* get_event_key                                                           *)
(*                                                                         *)
(* A string is the sequence of its pieces: " " is a blank, "-" a hyphen,   *)
(* "|" a bar, and every other piece a run of characters holding none of    *)
(* these.                                                                  *)
(***************************************************************************)
\* A title cell: None, or a string.
TitleNone == [null |-> TRUE, chars |-> <<>>]
Title(chars) == [null |-> FALSE, chars |-> chars]
Untitled == <<"Untitled", " ", "Event">>

\* "not title": None and '' are false.
TitleTruthy(t) == ~t.null /\ t.chars # <<>>

\* str.split(): the maximal runs without a blank, from position i on, w
\* being the run under way.
RECURSIVE SplitWs(_, _, _)
SplitWs(s, i, w) ==
    IF i > Len(s) THEN (IF w = <<>> THEN <<>> ELSE <<w>>)
    ELSE IF s[i] = " "
    THEN (IF w = <<>> THEN <<>> ELSE <<w>>) \o SplitWs(s, i + 1, <<>>)
    ELSE SplitWs(s, i + 1, Append(w, s[i]))

\* sep.join(words)
RECURSIVE JoinWith(_, _)
JoinWith(words, sep) ==
    IF words = <<>> THEN <<>>
    ELSE IF Len(words) = 1 THEN words[1]
    ELSE words[1] \o sep \o JoinWith(Tail(words), sep)

\* Lines 184-188.
normalize_title(t) ==
    IF ~TitleTruthy(t) THEN Untitled
    ELSE JoinWith(SplitWs(t.chars, 1, <<>>), <<" ">>)

\* The first position of ' - ' in s, or 0.
FindSep(s) ==
    LET I == {i \in 1..(Len(s) - 2) : SubSeq(s, i, i + 2) = <<" ", "-", " ">>}
    IN IF I = {} THEN 0 ELSE CHOOSE i \in I : \A j \in I : i <= j

\* Lines 190-196: title.split(' - ', 1) after normalisation.
extract_series_and_topic(t) ==
    LET n == normalize_title(t)
        i == FindSep(n)
    IN IF i = 0 THEN [series |-> n, topic |-> <<>>]
       ELSE [series |-> SubSeq(n, 1, i - 1), topic |-> SubSeq(n, i + 3, Len(n))]

Digit(n) == <<"0", "1", "2", "3", "4", "5", "6", "7", "8", "9">>[n + 1]
Fmt2(n) == <<Digit((n \div 10) % 10), Digit(n % 10)>>
Fmt4(n) == Fmt2(n \div 100) \o Fmt2(n % 100)

\* The time slot read in UTC.
get_time_slot_key_utc(ts) ==
    Fmt2(TimeOfDay(ts.wall - ts.off) \div Hour) \o <<":">>
        \o Fmt2((TimeOfDay(ts.wall - ts.off) % Hour) \div Minute)

\* Lines 198-201: f"{dt.hour:02d}:{dt.minute:02d}", of the wall clock.
get_time_slot_key(ts) ==
    Fmt2(TimeOfDay(ts.wall) \div Hour) \o <<":">>
        \o Fmt2((TimeOfDay(ts.wall) % Hour) \div Minute)

\* strftime('%Y-%m-%d'), of the wall clock.
strftime_ymd(ts) ==
    LET d == DateOf(ts.wall)
    IN Fmt4(2025 + YearIdx(d)) \o <<"-">> \o Fmt2(MonthOfYear(d)) \o <<"-">>
          \o Fmt2(DayOfMonth(d))

\* The text of a timestamp cell inside an rrule string.
CellText(c) ==
    IF c.kind # "ts" THEN <<c.kind>>
    ELSE strftime_ymd(c.ts) \o <<"T">> \o get_time_slot_key(c.ts)
            \o (IF c.ts.aware THEN <<"+">> \o Fmt2(c.ts.off \div Hour) ELSE <<>>)

\* str(rrule): 'None' for None, the string itself otherwise.
str_rrule(r) ==
    IF r.null THEN <<"None">>
    ELSE LET pieces(q) == SelectSeq(<<q.key, q.sep, q.value>>, LAMBDA x : x # "")
             body == JoinWith([i \in 1..Len(r.parts) |-> pieces(r.parts[i])], <<";">>)
             head == CASE r.prefix = "dtstart" ->
                            <<"DTSTART:">> \o CellText(r.dtstart) \o <<"\nRRULE:">>
                       [] r.prefix = "dtstart_only" ->
                            <<"DTSTART:">> \o CellText(r.dtstart)
                       [] OTHER -> <<>>
             quote == IF r.pad THEN <<" ">> ELSE <<>>
         IN quote \o head \o body \o quote

\* sorted(excluded_dates)
RECURSIVE sorted(_)
sorted(s) ==
    IF s = <<>> THEN <<>>
    ELSE LET m == CHOOSE x \in {s[i] : i \in 1..Len(s)} :
                     \A i \in 1..Len(s) : x <= s[i]
             k == CHOOSE i \in 1..Len(s) : s[i] = m
         IN <<m>> \o sorted(SubSeq(s, 1, k - 1) \o SubSeq(s, k + 1, Len(s)))

\* str(sorted(excluded_dates)) if excluded_dates else ''
str_excluded(ex) ==
    IF ex.null \/ ex.dates = <<>> THEN <<>>
    ELSE LET srt == sorted(ex.dates)
         IN <<"[">>
              \o JoinWith([i \in 1..Len(srt) |-> strftime_ymd(Naive(srt[i] * Day))],
                          <<",", " ">>)
              \o <<"]">>

\* '|'.join(filter(None, key_parts)), with key_parts kept beside it.
KeyOf(parts) ==
    [raised |-> "none",
     key |-> JoinWith(SelectSeq(parts, LAMBDA c : c # <<>>), <<"|">>),
     key_parts |-> parts]
KeyRaised(kind) == [raised |-> kind, key |-> <<>>, key_parts |-> <<>>]

\* get_event_key with the owner's email among the parts.
get_event_key_with_owner(r) ==
    LET title == IF ~TitleTruthy(r.title) THEN Title(Untitled) ELSE r.title
        st == extract_series_and_topic(title)
        start_time == to_datetime(r.start_time)
    IN IF start_time.raised \/ start_time.isna THEN KeyRaised("ValueError")
       ELSE KeyOf(<<st.series, st.topic, get_time_slot_key(start_time.ts),
                    strftime_ymd(start_time.ts), str_rrule(r.rrule),
                    str_excluded(r.rrule_ex_date), <<r.email>>>>)

\* Lines 238-275. A start_time that does not parse raises, and so does the
\* formatting of the hour of NaT.
get_event_key(r) ==
    LET title == IF ~TitleTruthy(r.title) THEN Title(Untitled) ELSE r.title
        st == extract_series_and_topic(title)
        start_time == to_datetime(r.start_time)
    IN IF start_time.raised \/ start_time.isna THEN KeyRaised("ValueError")
       ELSE KeyOf(<<st.series, st.topic, get_time_slot_key(start_time.ts),
                    strftime_ymd(start_time.ts), str_rrule(r.rrule),
                    str_excluded(r.rrule_ex_date)>>)

\* Occurrences handed to get_event_key.
Titles ==
    {TitleNone, Title(<<>>), Title(<<" ", " ">>), Title(<<"a">>),
     Title(<<"a", " ", "-", " ", "b">>),
     Title(<<" ", "a", " ", " ", "-", " ", " ", "b", " ">>),
     Title(<<"a", "-", "b">>), Title(<<"a", " ", "-", "b">>),
     Title(<<"a", " ", "-", " ", "b", " ", "-", " ", "c">>),
     Title(<<"-", " ", "a">>), Title(<<"a", " ", "-", " ">>),
     Title(<<"a", "|", "b">>), Title(<<"a", " ", "b">>)}
KeyStarts ==
    {V(t) : t \in Starts} \cup {V(Naive(At(11, 3, 14, 5, 0))), Null, NaTStr, Bad}
KeyRules ==
    {RruleNone, RruleEmpty, RruleStr("none", Null, <<EmptyPart>>, TRUE),
     Rule(WEEKLY, "1", "-", "3"), Rule(DAILY, "-", "MO,WE", "-")}
KeyExLists == {ExNone, ExList(<<>>), ExList(<<12>>), ExList(<<138, 5, 131>>)}
KeyRows ==
    {Row("e1", "g1", Null, t, s, s, rr, Null, ex) :
        t \in Titles, s \in KeyStarts, rr \in KeyRules, ex \in KeyExLists}

\* The same occurrence under another owner or id, and occurrences that
\* differ from it in one part of the key.
Variants(a) ==
    {[a EXCEPT !.ms_event_id = i, !.email = e, !.name = n] :
        i \in {"e1", "e2"}, e \in {"a@x.org", "b@x.org"}, n \in {"A B", "C D"}}
    \cup {[a EXCEPT !.title = Title(<<"b">>), !.email = "b@x.org"],
          [a EXCEPT !.rrule_ex_date = ExList(<<12, 5>>), !.ms_event_id = "e2"],
          [a EXCEPT !.start_time = V(Utc(At(1, 6, 9, 30, 0))), !.name = "C D"]}

InitKey ==
    /\ \E a \in KeyRows : \E b \in Variants(a) :
          keyed = [pc |-> "call", a |-> a, b |-> b]
    /\ row = Sc1Row
    /\ xpc = "idle"
    /\ expanded = Raised("pending")
    /\ df = <<>>
    /\ source = "none"
    /\ pc = "idle"
    /\ todo = <<>>
    /\ expanded_events = <<>>
    /\ result = [status |-> "none", frame |-> <<>>]
    /\ fetched = <<>>
    /\ sync = NoSync

Key ==
    /\ keyed.pc = "call"
    /\ keyed' = [pc |-> "return", a |-> keyed.a, b |-> keyed.b,
                 ka |-> get_event_key(keyed.a), kb |-> get_event_key(keyed.b)]
    /\ UNCHANGED <<row, xpc, expanded, df, source, pc, todo, expanded_events,
                   result, fetched, sync>>

\* The key of the first occurrence expand_recurring_event emits for a.
KeyOfExpanded ==
    /\ keyed.pc = "call"
    /\ expand_recurring_event(keyed.a).events # <<>>
    /\ LET first == expand_recurring_event(keyed.a).events[1]
       IN keyed' = [pc |-> "expanded", a |-> keyed.a, b |-> first,
                    ka |-> get_event_key(keyed.a), kb |-> get_event_key(first)]
    /\ UNCHANGED <<row, xpc, expanded, df, source, pc, todo, expanded_events,
                   result, fetched, sync>>

NextKey == Key \/ KeyOfExpanded

SpecKey == InitKey /\ [][NextKey]_vars

(***************************************************************************)
(* Base44 synchronisation: reports/handlers.py, Base44SyncHandler, and the  *)
(* client it drives, services/base44_service.py.  A time entry is a record *)
(* of the remote store; the remote is the sequence of the entries it       *)
(* holds.  Hours are hundredths of an hour (the report rounds them to two  *)
(* decimals).                                                              *)
(***************************************************************************)
TimeEntry(id, email, date, activity_type, hours, description, course_name) ==
    [id |-> id, faculty_email |-> email, date |-> date,
     month |-> SubSeq(date, 1, 7), activity_type |-> activity_type,
     hours |-> hours, description |-> description,
     course_name |-> course_name]

\* A row of a formatted faculty report; 'Start Time' is the text
\* 'YYYY-MM-DD HH:MM'.
ReportRow(name, title, start, hours, activity_type) ==
    [faculty_name |-> name, session_title |-> title, start_time |-> start,
     duration_hours |-> hours, activity_type |-> activity_type]

\* The closing row of a formatted report.
TotalRow(hours) == ReportRow("Total", "", <<>>, hours, "")

\* One value of faculty_reports: the member's email and report; has_column
\* says whether the report has the 'Activity Type' column.
ReportData(email, has_column, rows) ==
    [email |-> email, has_column |-> has_column, report |-> rows]

\* pd.to_datetime(row['Start Time']).date() written as '%Y-%m-%d' and as
\* '%Y-%m': the date part of the text, and its year and month.
prepare_base44_record(r, instructor_email, activity_type) ==
    [faculty_email |-> instructor_email,
     date |-> SubSeq(r.start_time, 1, 10),
     month |-> SubSeq(r.start_time, 1, 7),
     activity_type |-> activity_type,
     hours |-> r.duration_hours,
     description |-> r.session_title,
     course_name |-> ""]

\* _records_match with a field left out.
records_match_without_hours(base44_record, report_record) ==
    /\ base44_record.faculty_email = report_record.faculty_email
    /\ base44_record.date = report_record.date
    /\ base44_record.description = report_record.description
    /\ base44_record.course_name = report_record.course_name

records_match(base44_record, report_record) ==
    /\ base44_record.faculty_email = report_record.faculty_email
    /\ base44_record.date = report_record.date
    /\ base44_record.hours = report_record.hours
    /\ base44_record.description = report_record.description
    /\ base44_record.course_name = report_record.course_name

\* The rows of one report that the handler converts: never the total row,
\* and only the handler's activity type when the report has the column.
filtered_report(report_data, activity_type) ==
    LET report == SelectSeq(report_data.report,
                            LAMBDA r : r.faculty_name # "Total")
    IN IF report_data.has_column
       THEN SelectSeq(report, LAMBDA r : r.activity_type = activity_type)
       ELSE report

RECURSIVE new_records_of(_, _)
new_records_of(faculty_reports, activity_type) ==
    IF faculty_reports = <<>> THEN <<>>
    ELSE LET report_data == Head(faculty_reports)
             rows == filtered_report(report_data, activity_type)
         IN [i \in 1..Len(rows) |->
                prepare_base44_record(rows[i], report_data.email,
                                      activity_type)]
            \o new_records_of(Tail(faculty_reports), activity_type)

\* The ids of the fetched entries that match no record of the reports.
records_to_delete_of(existing_records, new_records) ==
    LET unmatched ==
            SelectSeq(existing_records,
                      LAMBDA b : \A i \in 1..Len(new_records) :
                                    ~records_match(b, new_records[i]))
    IN [i \in 1..Len(unmatched) |-> unmatched[i].id]

\* Every record of the reports, matched or not.
records_to_add_of_all(existing_records, new_records) == new_records

\* The records of the reports that match no fetched entry.
records_to_add_of(existing_records, new_records) ==
    SelectSeq(new_records,
              LAMBDA n : \A i \in 1..Len(existing_records) :
                            ~records_match(existing_records[i], n))

\* fetch_time_entries that answers from the store whatever the outcome of
\* the request.
fetch_time_entries_despite_error(remote, month, activity_type, ok) ==
    SelectSeq(remote, LAMBDA e : /\ e.month = month
                                 /\ e.activity_type = activity_type)

\* fetch_time_entries(month=, activity_type=): the entries of the store with
\* that month and activity type, or [] on a request error.
fetch_time_entries(remote, month, activity_type, ok) ==
    IF ok
    THEN SelectSeq(remote, LAMBDA e : /\ e.month = month
                                      /\ e.activity_type = activity_type)
    ELSE <<>>

\* bulk_delete_time_entries that gives up at the first failure.
after_delete_stop_on_failure(ids, ok) == IF ok THEN Tail(ids) ELSE <<>>

\* bulk_delete_time_entries: the loop goes on to the next id whatever
\* delete_time_entry returned.
after_delete(ids, ok) == Tail(ids)

\* The store after delete_time_entry(id).
delete_time_entry(remote, id, ok) ==
    IF ok THEN SelectSeq(remote, LAMBDA e : e.id # id) ELSE remote

\* Ids the store gives to the entries it creates.
NewIds ==
    <<"n1", "n2", "n3", "n4", "n5", "n6", "n7", "n8", "n9", "n10", "n11",
      "n12", "n13", "n14", "n15", "n16">>

\* The store after bulk_add_time_entries(records): one request, all or none.
bulk_add_time_entries(remote, records, created, ok) ==
    IF ok
    THEN remote \o [i \in 1..Len(records) |->
                       [id |-> NewIds[created + i]] @@ records[i]]
    ELSE remote

\* A request sent to the API.
Request(op, id, records, ok) ==
    [op |-> op, id |-> id, records |-> records, ok |-> ok]

\* Reports, months and stores of the runs.
January == <<"2", "0", "2", "5", "-", "0", "1">>
StartTime(month, dom, h, m) ==
    strftime_ymd(Naive(At(month, dom, h, m, 0)))
        \o <<" ">> \o Fmt2(h) \o <<":">> \o Fmt2(m)
Ymd(month, dom) == strftime_ymd(Naive(At(month, dom, 0, 0, 0)))

Loops == ReportRow("Ada", "Loops", StartTime(1, 6, 9, 0), 100, "instruction")
Sets == ReportRow("Ada", "Sets", StartTime(1, 7, 10, 30), 150, "instruction")
Help == ReportRow("Ada", "Help", StartTime(1, 8, 14, 0), 100, "tutoring")
BobLoops ==
    ReportRow("Bob", "Loops", StartTime(1, 6, 9, 0), 100, "instruction")

ReportRows ==
    {<<>>, <<Loops>>, <<Loops, Sets>>, <<Loops, Loops>>, <<Loops, Help>>,
     <<Sets, Help, Help>>}

\* report_df['Duration (Hours)'].sum()
RECURSIVE SumHours(_)
SumHours(rows) ==
    IF rows = <<>> THEN 0 ELSE Head(rows).duration_hours + SumHours(Tail(rows))

FacultyReports ==
    {<<ReportData("ada@x.org", c, rows \o <<TotalRow(SumHours(rows))>>)>> :
        c \in BOOLEAN, rows \in ReportRows}
    \cup {<<ReportData("ada@x.org", TRUE, <<Loops, TotalRow(100)>>),
            ReportData("bob@x.org", TRUE, <<BobLoops, TotalRow(100)>>)>>}

StoredEntries ==
    <<TimeEntry("t1", "ada@x.org", Ymd(1, 6), "instruction", 100, "Loops", ""),
      TimeEntry("t2", "ada@x.org", Ymd(1, 6), "instruction", 100, "Loops", ""),
      TimeEntry("t3", "ada@x.org", Ymd(1, 7), "instruction", 100, "Sets", ""),
      TimeEntry("t4", "ada@x.org", Ymd(1, 8), "tutoring", 100, "Help", ""),
      TimeEntry("t5", "ada@x.org", Ymd(2, 3), "instruction", 100, "Loops", "")>>

Remotes ==
    {SelectSeq(StoredEntries, LAMBDA e : e.id \in S) :
        S \in SUBSET {StoredEntries[i].id : i \in 1..Len(StoredEntries)}}

\* Runs of process_reports on the same reports.
MaxRuns == 2

\* process_reports is entered: nothing fetched or computed yet.
Entered(activity_type, faculty_reports, remote, run, created, prev_ok) ==
    [pc |-> "start", activity_type |-> activity_type,
     target_month |-> January, faculty_reports |-> faculty_reports,
     remote |-> remote, existing_records |-> <<>>, new_records |-> <<>>,
     records_to_delete |-> <<>>, records_to_add |-> <<>>, ids |-> <<>>,
     requests |-> <<>>, run |-> run, created |-> created,
     fetch_ok |-> TRUE, calls_ok |-> TRUE, prev_ok |-> prev_ok]

InitSync ==
    /\ row = Sc1Row
    /\ xpc = "idle"
    /\ expanded = Raised("none")
    /\ df = <<>>
    /\ source = "calendar"
    /\ pc = "idle"
    /\ todo = <<>>
    /\ expanded_events = <<>>
    /\ result = [status |-> "none", frame |-> <<>>]
    /\ fetched = <<>>
    /\ keyed = NoKey
    /\ sync \in {Entered(a, f, r, 1, 0, TRUE) :
                    a \in {"instruction", "tutoring"},
                    f \in FacultyReports, r \in Remotes}

NotSync ==
    UNCHANGED <<row, xpc, expanded, df, source, pc, todo, expanded_events,
                result, fetched, keyed>>

\* existing_records = self.api.fetch_time_entries(month, activity_type)
Fetch ==
    /\ sync.pc = "start"
    /\ \E ok \in BOOLEAN :
         sync' = [sync EXCEPT
                    !.pc = "fetched",
                    !.existing_records =
                        fetch_time_entries(sync.remote, sync.target_month,
                                           sync.activity_type, ok),
                    !.fetch_ok = ok,
                    !.calls_ok = ok,
                    !.requests = <<Request("GET", "", <<>>, ok)>>]
    /\ NotSync

\* new_records, records_to_delete and records_to_add are computed.
Compare ==
    /\ sync.pc = "fetched"
    /\ LET new_records ==
               new_records_of(sync.faculty_reports, sync.activity_type)
           to_delete ==
               records_to_delete_of(sync.existing_records, new_records)
       IN sync' = [sync EXCEPT
                     !.pc = "syncing",
                     !.new_records = new_records,
                     !.records_to_delete = to_delete,
                     !.records_to_add =
                         records_to_add_of(sync.existing_records, new_records),
                     !.ids = to_delete]
    /\ NotSync

\* One turn of the loop of bulk_delete_time_entries.
DeleteEntry ==
    /\ sync.pc = "syncing"
    /\ sync.ids # <<>>
    /\ \E ok \in BOOLEAN :
         sync' = [sync EXCEPT
                    !.remote = delete_time_entry(sync.remote, Head(sync.ids), ok),
                    !.ids = after_delete(sync.ids, ok),
                    !.calls_ok = sync.calls_ok /\ ok,
                    !.requests = Append(sync.requests,
                                        Request("DELETE", Head(sync.ids),
                                                <<>>, ok))]
    /\ NotSync

\* if records_to_add: self.api.bulk_add_time_entries(records_to_add)
AddEntries ==
    /\ sync.pc = "syncing"
    /\ sync.ids = <<>>
    /\ sync.records_to_add # <<>>
    /\ \E ok \in BOOLEAN :
         sync' = [sync EXCEPT
                    !.pc = "done",
                    !.remote = bulk_add_time_entries(sync.remote,
                                   sync.records_to_add, sync.created, ok),
                    !.created = IF ok
                                THEN sync.created + Len(sync.records_to_add)
                                ELSE sync.created,
                    !.calls_ok = sync.calls_ok /\ ok,
                    !.requests = Append(sync.requests,
                                        Request("POST", "",
                                                sync.records_to_add, ok))]
    /\ NotSync

\* Nothing to add: the run ends without an add request.
Complete ==
    /\ sync.pc = "syncing"
    /\ sync.ids = <<>>
    /\ sync.records_to_add = <<>>
    /\ sync' = [sync EXCEPT !.pc = "done"]
    /\ NotSync

process_reports == Fetch \/ Compare \/ DeleteEntry \/ AddEntries \/ Complete

\* process_reports is called again with the same reports, month and
\* activity type, on the store the previous run left.
Again ==
    /\ sync.pc = "done"
    /\ sync.run < MaxRuns
    /\ sync' = Entered(sync.activity_type, sync.faculty_reports, sync.remote,
                       sync.run + 1, sync.created, sync.calls_ok)
    /\ NotSync

NextSync == process_reports \/ Again

SpecSync == InitSync /\ [][NextSync]_vars

(***************************************************************************)
(* What the properties speak about: the rule of a row read as a set of     *)
(* instants, independently of how the enumeration walks it.                *)
(***************************************************************************)
Params(r) == parse_parts(r.rrule.parts, 1, EmptyDict).params
N_of(r) == IntOf(Get(Params(r), "COUNT", "1"))
K_of(r) == IntOf(Get(Params(r), "INTERVAL", "1"))
F_of(r) == freq_map(Get(Params(r), "FREQ", WEEKLY))
B_of(r) ==
    LET b == Get(Params(r), "BYDAY", "")
        t == IF b = "" THEN <<>> ELSE SplitComma(b)
    IN {WeekdayNo(Upper2(t[i])) : i \in 1..Len(t)}

\* The anchor: the row's start, read in UTC when it carries a timezone.
Anchor(r) == Instant(r.start_time.ts)
RowDuration(r) == Instant(r.end_time.ts) - Instant(r.start_time.ts)

\* rrule_until, or the default horizon when the row has none that parses,
\* read in the awareness of the anchor.
UntilOf(r) ==
    LET u == IF r.rrule_until.kind = "ts" THEN r.rrule_until.ts ELSE default_until
    IN IF r.start_time.ts.aware THEN Instant(u) ELSE u.wall

\* Day d is a day of the rule: in a period the interval selects, and on a
\* BYDAY weekday or, without BYDAY, on the anchor's own day of the period.
OnRuleDay(r, d) ==
    LET d0 == DateOf(Anchor(r))
        k == K_of(r)
        f == F_of(r)
    IN /\ CASE f = YEARLY -> (YearIdx(d) - YearIdx(d0)) % k = 0
            [] f = MONTHLY -> (MonthIdx(d) - MonthIdx(d0)) % k = 0
            [] f = WEEKLY -> (WeekIdx(d) - WeekIdx(d0)) % k = 0
            [] f = DAILY -> (d - d0) % k = 0
            [] OTHER -> TRUE
       /\ IF B_of(r) # {} THEN Weekday(d) \in B_of(r)
          ELSE CASE f = YEARLY -> MonthOfYear(d) = MonthOfYear(d0)
                                  /\ DayOfMonth(d) = DayOfMonth(d0)
                 [] f = MONTHLY -> DayOfMonth(d) = DayOfMonth(d0)
                 [] f = WEEKLY -> Weekday(d) = Weekday(d0)
                 [] OTHER -> TRUE

\* The instants of the rule from the anchor up to and including hi.
RuleInstants(r, hi) ==
    IF hi < Anchor(r) THEN {}
    ELSE IF F_of(r) \in DateFreqs
    THEN {t \in {d * Day + TimeOfDay(Anchor(r)) :
                   d \in {x \in DateOf(Anchor(r))..DateOf(hi) : OnRuleDay(r, x)}} :
            t >= Anchor(r) /\ t <= hi}
    ELSE LET step == K_of(r) * UnitOf(F_of(r))
         IN {t \in {Anchor(r) + j * step : j \in 0..((hi - Anchor(r)) \div step)} :
               OnRuleDay(r, DateOf(t))}

\* The days within which the n-th day of a date rule is looked for.
HorizonDays(f) ==
    CASE f = YEARLY -> YearLen
      [] f = MONTHLY -> 62
      [] OTHER -> 7

\* The n-th instant of the rule counted from the anchor (n >= 1).
NthInstant(r, n) ==
    IF F_of(r) \in DateFreqs
    THEN LET d0 == DateOf(Anchor(r))
             dhi == d0 + (n + 1) * K_of(r) * HorizonDays(F_of(r))
             days == SortedSeq({d \in d0..dhi : OnRuleDay(r, d)}, d0, dhi)
         IN days[n] * Day + TimeOfDay(Anchor(r))
    ELSE LET step == K_of(r) * UnitOf(F_of(r))
             d0 == DateOf(Anchor(r))
             first(d) == IF d * Day <= Anchor(r) THEN 0
                         ELSE (d * Day - Anchor(r) + step - 1) \div step
             T == {t \in {Anchor(r) + (first(d) + i) * step :
                            d \in d0..(d0 + 13), i \in 0..(n - 1)} :
                     OnRuleDay(r, DateOf(t))}
         IN SortedSeq(T, Anchor(r), Anchor(r) + 15 * Day)[n]

\* The number of instants of the rule before t.
RankIn(r, t) == Cardinality(RuleInstants(r, t) \ {t})

StartsOf(events) == [i \in 1..Len(events) |-> events[i].start_time.ts.wall]
Excluded(r, t) ==
    /\ ~r.rrule_ex_date.null
    /\ InSeq(DateOf(t), r.rrule_ex_date.dates)
NotExcluded(r, s) == SelectSeq(s, LAMBDA t : ~Excluded(r, t))
Ascending(s) == \A i \in 1..(Len(s) - 1) : s[i] < s[i + 1]

Called == xpc = "return"
Recurring == Called /\ expanded.raised = "none" /\ expanded.recurring

(***************************************************************************)
(* Properties of expand_recurring_event                                    *)
(***************************************************************************)
\* C1: a row whose rrule is None or the empty string expands to exactly one
\* occurrence, whose start_time and end_time are the row's own, unconverted
\* and whatever the horizon.
C1_NonRecurringIsIdentity ==
    (Called /\ (row.rrule.null \/ row.rrule = RruleEmpty)) =>
        /\ expanded.raised = "none"
        /\ Len(expanded.events) = 1
        /\ expanded.events[1].start_time = row.start_time
        /\ expanded.events[1].end_time = row.end_time

C1_Witness ==
    /\ Called
    /\ row.rrule = RruleEmpty
    /\ row.start_time.kind = "ts" /\ row.start_time.ts.off # 0
    /\ Anchor(row) > default_until.wall
    /\ Len(expanded.events) = 1

\* C2: every occurrence of a recurring row lasts as long as the row itself.
C2_DurationPreserved ==
    Recurring =>
        \A i \in 1..Len(expanded.events) :
            Instant(expanded.events[i].end_time.ts)
              - Instant(expanded.events[i].start_time.ts) = RowDuration(row)

C2_Witness ==
    /\ Recurring
    /\ Len(expanded.events) >= 3
    /\ RowDuration(row) = Hour + 30 * Minute
    /\ B_of(row) # {}

\* C3: no occurrence of a recurring row starts on a date of rrule_ex_date,
\* whatever its time of day.
C3_NoOccurrenceOnExcludedDate ==
    Recurring =>
        \A i \in 1..Len(expanded.events) :
            ~Excluded(row, expanded.events[i].start_time.ts.wall)

C3_Witness ==
    /\ Recurring
    /\ Len(expanded.events) >= 1
    /\ Len(expanded.events) < Len(expanded.dates)
    /\ \E i \in 1..Len(expanded.dates) :
          Excluded(row, expanded.dates[i]) /\ TimeOfDay(expanded.dates[i]) # 0

\* C4: with COUNT and rrule_until both set, at most COUNT occurrences come
\* out, and each starts at or before the termination instant: the one the
\* enumeration used, rrule_until, and the COUNT-th instant of the rule.
C4_CountAndUntilBound ==
    (Recurring /\ HasCount(row) /\ row.rrule_until.kind = "ts") =>
        /\ Len(expanded.events) <= N_of(row)
        /\ \A i \in 1..Len(expanded.events) :
              LET t == expanded.events[i].start_time.ts.wall
              IN /\ t <= expanded.until.wall
                 /\ t <= UntilOf(row)
                 /\ t <= NthInstant(row, N_of(row))

C4_Witness ==
    /\ Recurring /\ HasCount(row) /\ row.rrule_until.kind = "ts"
    /\ Len(expanded.events) = N_of(row)
    /\ N_of(row) = 3
    /\ B_of(row) # {}
    /\ expanded.events[3].start_time.ts.wall < UntilOf(row)

\* C5: FREQ=WEEKLY;INTERVAL=k;COUNT=N without BYDAY, rrule_until and
\* exclusions, whose N-th weekly instant is not after the default horizon,
\* gives exactly N occurrences, the i-th at anchor + i*k weeks (i from 0),
\* in that order, each as long as the row.
C5_Applies(r) ==
    /\ r.start_time.kind = "ts" /\ r.end_time.kind = "ts"
    /\ Truthy(r.rrule) /\ r.rrule.prefix = "none" /\ ~r.rrule.pad
    /\ \A i \in 1..Len(r.rrule.parts) :
          /\ r.rrule.parts[i].sep = "="
          /\ r.rrule.parts[i].key \in {"FREQ", "INTERVAL", "COUNT"}
    /\ {"FREQ", "COUNT"} \subseteq DOMAIN Params(r)
    /\ Params(r)["FREQ"] = WEEKLY
    /\ IsInt(Get(Params(r), "INTERVAL", "1")) /\ IsInt(Params(r)["COUNT"])
    /\ r.rrule_until.kind = "null"
    /\ (r.rrule_ex_date.null \/ r.rrule_ex_date.dates = <<>>)
    /\ Anchor(r) + (N_of(r) - 1) * K_of(r) * Week
         <= (IF r.start_time.ts.aware THEN Instant(default_until)
             ELSE default_until.wall)

C5_WeeklyCountScenario ==
    (Called /\ C5_Applies(row)) =>
        /\ expanded.raised = "none"
        /\ Len(expanded.events) = N_of(row)
        /\ \A i \in 1..Len(expanded.events) :
              /\ expanded.events[i].start_time.ts.wall
                   = Anchor(row) + (i - 1) * K_of(row) * Week
              /\ expanded.events[i].end_time.ts.wall
                   = Anchor(row) + (i - 1) * K_of(row) * Week + RowDuration(row)
              /\ expanded.events[i].start_time.ts.aware = row.start_time.ts.aware

C5_Witness ==
    /\ Called /\ C5_Applies(row)
    /\ row.start_time = V(Utc(At(1, 6, 9, 0, 0)))
    /\ row.rrule = Rule(WEEKLY, "1", "-", "3")
    /\ StartsOf(expanded.events)
         = <<At(1, 6, 9, 0, 0), At(1, 13, 9, 0, 0), At(1, 20, 9, 0, 0)>>

C7_EmittedAreAllRuleInstants ==
    (Recurring /\ ~HasCount(row)) =>
        LET within == SortedSeq(RuleInstants(row, UntilOf(row)),
                                Anchor(row), UntilOf(row))
        IN /\ StartsOf(expanded.events) = within
           /\ Ascending(StartsOf(expanded.events))
           /\ (Anchor(row) <= UntilOf(row) =>
                 /\ expanded.events # <<>>
                 /\ expanded.events[1].start_time.ts.wall = Anchor(row))

\* C7 amended: without COUNT the candidates generated before the exclusions
\* are exactly the instants c of the rule with anchor <= c <= termination
\* instant (the one equal to the termination instant included), strictly
\* ascending, the first being the anchor when BYDAY allows the anchor's
\* weekday; the emitted occurrences are these candidates less those on an
\* excluded date.
C7_CandidatesAreAllRuleInstants ==
    (Recurring /\ ~HasCount(row)) =>
        LET within == SortedSeq(RuleInstants(row, UntilOf(row)),
                                Anchor(row), UntilOf(row))
        IN /\ expanded.dates = within
           /\ Ascending(expanded.dates)
           /\ StartsOf(expanded.events) = NotExcluded(row, expanded.dates)
           /\ (Anchor(row) <= UntilOf(row)
               /\ (B_of(row) = {} \/ Weekday(DateOf(Anchor(row))) \in B_of(row))) =>
                 /\ expanded.dates # <<>>
                 /\ expanded.dates[1] = Anchor(row)

C7_Witness ==
    /\ Recurring /\ ~HasCount(row)
    /\ Len(expanded.dates) >= 3
    /\ expanded.dates[Len(expanded.dates)] = UntilOf(row)
    /\ Len(expanded.events) < Len(expanded.dates)
    /\ expanded.events # <<>>
    /\ expanded.events[1].start_time.ts.wall = Anchor(row)

\* C8: with COUNT=N the count-derived bound is the N-th instant of the
\* row's full rule (frequency, interval and BYDAY) from the anchor, and the
\* enumeration ends at the earlier of it and rrule_until or the horizon.
C8_CountBoundFromFullRule ==
    (Recurring /\ HasCount(row)) =>
        /\ expanded.count_end = NthInstant(row, N_of(row))
        /\ expanded.until.wall = Min(NthInstant(row, N_of(row)), UntilOf(row))

\* A row expand_recurring_event can take apart: a rule that is a non-empty
\* list of key=value parts with whole numbers for INTERVAL and COUNT and
\* weekday names in BYDAY, and start and end times that parse.
WellFormed(r) ==
    /\ Truthy(r.rrule)
    /\ r.rrule.prefix = "none"
    /\ \A i \in 1..Len(r.rrule.parts) : r.rrule.parts[i].sep \in {"=", ":"}
    /\ r.start_time.kind = "ts" /\ r.end_time.kind = "ts"
    /\ IsInt(Get(Params(r), "INTERVAL", "1"))
    /\ IsInt(Get(Params(r), "COUNT", "1"))
    /\ LET b == Get(Params(r), "BYDAY", "")
           t == IF b = "" THEN <<>> ELSE SplitComma(b)
       IN \A i \in 1..Len(t) : IsWeekdayName(Upper2(t[i]))

\* C11: without COUNT, the termination instant is rrule_until when it
\* parses to an instant, and the default horizon 2025-05-31T23:59:59 UTC
\* when rrule_until is absent, does not parse or parses to NaT; and a row
\* with such an rrule_until fails in no case where the row without
\* rrule_until does not.
C11_TerminationResolution ==
    Called =>
        /\ (Recurring /\ ~HasCount(row)) =>
              expanded.until.wall =
                 IF row.rrule_until.kind = "ts"
                 THEN (IF row.start_time.ts.aware
                       THEN Instant(row.rrule_until.ts)
                       ELSE row.rrule_until.ts.wall)
                 ELSE At(5, 31, 23, 59, 59)
        /\ (row.rrule_until.kind # "ts") =>
              expanded.raised =
                 expand_recurring_event([row EXCEPT !.rrule_until = Null]).raised
C11_Witness ==
    /\ Recurring /\ ~HasCount(row)
    /\ row.rrule_until = Bad
    /\ expanded.until.wall = At(5, 31, 23, 59, 59)
    /\ Len(expanded.events) > 1

\* C12: a recurring row whose termination instant is before its anchor,
\* or whose candidates are all on excluded dates, expands to the empty
\* list without an error.
C12_ZeroCandidatesIsEmpty ==
    (Called /\ WellFormed(row)
       /\ \/ UntilOf(row) < Anchor(row)
          \/ \A i \in 1..Len(expanded.dates) : Excluded(row, expanded.dates[i])) =>
        /\ expanded.raised = "none"
        /\ expanded.recurring
        /\ expanded.events = <<>>
C12_Witness ==
    /\ Recurring /\ WellFormed(row)
    /\ Len(expanded.dates) >= 2
    /\ \A i \in 1..Len(expanded.dates) : Excluded(row, expanded.dates[i])
    /\ expanded.events = <<>>

\* C13 as stated: an rrule_until before the anchor is replaced by the
\* default horizon, up to which the row is then enumerated.
C13_UntilBeforeAnchorFallsBack ==
    (Called /\ WellFormed(row) /\ row.rrule_until.kind = "ts"
       /\ UntilOf(row) < Anchor(row)) =>
        /\ expanded.raised = "none"
        /\ expanded.until.wall = At(5, 31, 23, 59, 59)

\* C13: an rrule_until before the anchor is kept as the termination
\* instant (in the awareness of the anchor), with or without COUNT, and the
\* row expands to the empty list; no fallback to the default horizon
\* takes place.
C13_UntilBeforeAnchorIsKept ==
    (Called /\ WellFormed(row) /\ row.rrule_until.kind = "ts"
       /\ UntilOf(row) < Anchor(row)) =>
        /\ expanded.raised = "none"
        /\ expanded.until.wall = UntilOf(row)
        /\ expanded.until.wall # At(5, 31, 23, 59, 59)
        /\ expanded.events = <<>>
C13_Witness ==
    /\ Recurring /\ WellFormed(row)
    /\ row.rrule_until.kind = "ts"
    /\ UntilOf(row) < Anchor(row)
    /\ Anchor(row) < At(5, 31, 23, 59, 59)
    /\ expanded.events = <<>>

\* C14: the anchor and the termination instant handed to the enumeration
\* have one awareness, that of start_time: both in UTC when start_time
\* carries a timezone, both naive when it does not; so no well-formed row
\* fails on a comparison of an aware with a naive instant.
C14_SameAwareness ==
    Called =>
        /\ WellFormed(row) => expanded.raised = "none"
        /\ Recurring =>
              /\ expanded.event_start.aware = row.start_time.ts.aware
              /\ expanded.until.aware = row.start_time.ts.aware
              /\ expanded.event_start.off = 0 /\ expanded.until.off = 0
              /\ expanded.event_start.wall = Anchor(row)
C14_Witness ==
    /\ Recurring
    /\ ~row.start_time.ts.aware
    /\ row.rrule_until.kind = "ts" /\ row.rrule_until.ts.aware
    /\ row.rrule_until.ts.off # 0
    /\ ~expanded.until.aware
    /\ expanded.events # <<>>

\* The start and end of the occurrences of a call.
Occ(x) == [i \in 1..Len(x.events) |-> <<x.events[i].start_time, x.events[i].end_time>>]

WithoutDtstart(r) == [r EXCEPT !.rrule.prefix = "none", !.rrule.dtstart = Null]

\* C25: a rule that opens with DTSTART:<t> and an RRULE: line, t not being
\* the row's start_time, is enumerated from the row's start_time, and the
\* occurrences are those of the row without the DTSTART line.
C25_EmbeddedDtstartIsNotTheAnchor ==
    (Called /\ row.rrule.prefix = "dtstart" /\ row.rrule.dtstart.kind = "ts"
       /\ row.rrule.dtstart # row.start_time /\ WellFormed(WithoutDtstart(row))) =>
        /\ expanded.raised = "none"
        /\ expanded.recurring
        /\ expanded.event_start.wall = Anchor(row)
        /\ (B_of(row) = {} /\ expanded.dates # <<>>) => expanded.dates[1] = Anchor(row)
        /\ Occ(expanded) = Occ(expand_recurring_event(WithoutDtstart(row)))
C25_Witness ==
    /\ Recurring
    /\ row.rrule.prefix = "dtstart" /\ row.rrule.dtstart.kind = "ts"
    /\ Instant(row.rrule.dtstart.ts) > Anchor(row)
    /\ Len(expanded.events) = 2
    /\ expanded.events[1].start_time.ts.wall = Anchor(row)

\* The row with its rule written out: FREQ as one of the seven names
\* (WEEKLY for anything else), INTERVAL (1 when missing), BYDAY and COUNT
\* when the rule has them, and no other key.
Canon(r) ==
    LET q == Params(r)
        f == Get(q, "FREQ", WEEKLY)
        known == {YEARLY, MONTHLY, WEEKLY, DAILY, HOURLY, MINUTELY, SECONDLY}
        opt(k) == IF k \in DOMAIN q THEN <<Part(k, "=", q[k])>> ELSE <<>>
    IN [r EXCEPT !.rrule =
          RruleStr("none", Null,
                   <<Part("FREQ", "=", IF f \in known THEN f ELSE WEEKLY),
                     Part("INTERVAL", "=", Get(q, "INTERVAL", "1"))>>
                      \o opt("BYDAY") \o opt("COUNT"), FALSE)]

\* C26: a rule is enumerated as the rule written out with its defaults:
\* WEEKLY for a FREQ that is missing or none of the seven names, interval
\* 1 without INTERVAL, and keys other than FREQ, INTERVAL, BYDAY and COUNT
\* left aside.
C26_DescriptorDefaults ==
    (Called /\ WellFormed(row)) =>
        /\ expanded.raised = "none"
        /\ Occ(expanded) = Occ(expand_recurring_event(Canon(row)))
C26_Witness ==
    /\ Recurring /\ WellFormed(row)
    /\ DOMAIN Params(row) = {"WKST", "COUNT"}
    /\ Len(expanded.events) = 2
    /\ expanded.events[2].start_time.ts.wall = Anchor(row) + 7 * Day

(***************************************************************************)
(* Properties of a processing run                                          *)
(***************************************************************************)
Finished == pc \in {"done", "raised"}
Grouped(r) == r.recurring_group_id # None

\* A string parse_rrule cannot take apart: a part that is neither key=value
\* nor key:value, or DTSTART: without an RRULE: line after it.
Malformed(rr) ==
    /\ Truthy(rr)
    /\ \/ rr.prefix = "dtstart_only"
       \/ \E i \in 1..Len(rr.parts) : rr.parts[i].sep \notin {"=", ":"}

Raises(r) == expand_recurring_event(r).raised # "none"

FrameOf(id) == SelectSeq(result.frame, LAMBDA f : f.event.ms_event_id = id)
InFrame(e) == \E i \in 1..Len(result.frame) : result.frame[i].event = e

\* C9: a grouped row whose rrule is malformed is treated as non-recurring:
\* the run returns, and holds exactly one occurrence of the row, with the
\* row's own start and end.
C9_MalformedRuleIsSingleOccurrence ==
    Finished =>
        \A i \in 1..Len(df) :
            (Grouped(df[i]) /\ Malformed(df[i].rrule)) =>
                /\ result.status = "returned"
                /\ Len(FrameOf(df[i].ms_event_id)) = 1
                /\ FrameOf(df[i].ms_event_id)[1].event.start_time = df[i].start_time
                /\ FrameOf(df[i].ms_event_id)[1].event.end_time = df[i].end_time

\* C10: a grouped row whose expansion raises is skipped, and every other
\* grouped row is still expanded and returned.
C10_RaisingRowIsSkipped ==
    (Finished /\ \E i \in 1..Len(df) : Grouped(df[i]) /\ Raises(df[i])) =>
        \A i \in 1..Len(df) :
            Grouped(df[i]) =>
                IF Raises(df[i]) THEN FrameOf(df[i].ms_event_id) = <<>>
                ELSE LET ev == clean_events(expand_recurring_event(df[i]).events)
                     IN \A k \in 1..Len(ev) : InFrame(ev[k])

\* A row that carries a deletion time.
Deleted(r) == r.deleted_at.kind \notin {"null", "nat"}
EventsOf(id) == SelectSeq(expanded_events, LAMBDA e : e.ms_event_id = id)

\* C15: no occurrence, in the list being built or in the returned frame,
\* comes from a fetched row whose deleted_at is set, grouped or not, and no
\* such row is left in the frame once filtering is over or is ever handed
\* to expand_recurring_event.
C15_NoOccurrenceOfDeletedRow ==
    /\ \A j \in 1..Len(fetched) :
          Deleted(fetched[j]) =>
              /\ EventsOf(fetched[j].ms_event_id) = <<>>
              /\ FrameOf(fetched[j].ms_event_id) = <<>>
    /\ \A i \in 1..Len(expanded_events) : ~Deleted(expanded_events[i])
    /\ pc # "start" => \A j \in 1..Len(df) : ~Deleted(df[j])
    /\ xpc = "return" => ~Deleted(row)
C15_Witness ==
    /\ pc = "done"
    /\ \E j \in 1..Len(fetched) :
          /\ Deleted(fetched[j]) /\ Grouped(fetched[j])
          /\ Truthy(fetched[j].rrule)
    /\ Len(result.frame) >= 2

\* What expand_recurring_event makes of the row alone, cleaned.
OwnExpansion(r) == clean_events(expand_recurring_event(r).events)
RECURSIVE Flatten(_)
Flatten(ss) == IF ss = <<>> THEN <<>> ELSE Head(ss) \o Flatten(Tail(ss))

C17_UngroupedRowIsExpanded ==
    pc = "done" =>
        \A j \in 1..Len(fetched) :
            (~Grouped(fetched[j]) /\ ~Deleted(fetched[j])
               /\ ~Raises(fetched[j])) =>
                [i \in 1..Len(FrameOf(fetched[j].ms_event_id)) |->
                    FrameOf(fetched[j].ms_event_id)[i].event]
                  = OwnExpansion(fetched[j])

\* C18: in every occurrence of the list and of the returned frame, from a
\* grouped or an ungrouped row, a field that was None, '' or [] in the row
\* holds None, and no field holds '' or [].
Blank(e) ==
    \/ "" \in {e.title, e.email, e.name, e.ms_event_id, e.recurring_group_id,
               e.rrule_tzid}
    \/ (~e.rrule.null /\ e.rrule.prefix = "none" /\ ~e.rrule.pad
          /\ e.rrule.parts = <<EmptyPart>>)
    \/ (~e.rrule_ex_date.null /\ e.rrule_ex_date.dates = <<>>)
Coalesced(r, e) ==
    /\ r.title \in {"", None} => e.title = None
    /\ (r.rrule.null \/ r.rrule = RruleEmpty) => e.rrule = RruleNone
    /\ (r.rrule_ex_date.null \/ r.rrule_ex_date.dates = <<>>)
          => e.rrule_ex_date = ExNone
    /\ r.recurring_group_id = None => e.recurring_group_id = None
    /\ r.rrule_tzid = None => e.rrule_tzid = None
C18_EmptyValuesAreNone ==
    /\ \A i \in 1..Len(expanded_events) :
          /\ ~Blank(expanded_events[i])
          /\ \A j \in 1..Len(fetched) :
                fetched[j].ms_event_id = expanded_events[i].ms_event_id
                   => Coalesced(fetched[j], expanded_events[i])
    /\ \A i \in 1..Len(result.frame) :
          /\ ~Blank(result.frame[i].event)
          /\ \A j \in 1..Len(fetched) :
                fetched[j].ms_event_id = result.frame[i].event.ms_event_id
                   => Coalesced(fetched[j], result.frame[i].event)
C18_Witness ==
    /\ pc = "done"
    /\ Len(result.frame) = 2
    /\ \E j \in 1..Len(fetched) :
          /\ Grouped(fetched[j])
          /\ ~fetched[j].rrule_ex_date.null /\ fetched[j].rrule_ex_date.dates = <<>>
    /\ \E j \in 1..Len(fetched) :
          /\ ~Grouped(fetched[j])
          /\ fetched[j].title = "" /\ fetched[j].rrule = RruleEmpty

\* The columns of a record of the returned frame.
Columns(f) == DOMAIN f.event \cup (DOMAIN f \ {"event"})

\* C19 as stated: every occurrence of the returned frame carries an
\* identity_key next to duration_hours.
C19_OccurrenceCarriesIdentityKey ==
    pc = "done" =>
        \A i \in 1..Len(result.frame) :
            /\ "duration_hours" \in Columns(result.frame[i])
            /\ "identity_key" \in Columns(result.frame[i])

\* The parts of an occurrence the key is made of.
KeyFields(r) == <<r.title, r.start_time, r.rrule, r.rrule_ex_date>>

\* C20: the key is a function of title, start_time, rrule and
\* rrule_ex_date: computed again on the same occurrence it is the same, and
\* two occurrences that agree on these four get the same key (or both
\* raise), whatever their email, name and id.
C20_KeyIgnoresOwnerAndId ==
    keyed.pc = "return" =>
        /\ keyed.ka = get_event_key(keyed.a)
        /\ KeyFields(keyed.a) = KeyFields(keyed.b) => keyed.ka = keyed.kb
C20_Witness ==
    /\ keyed.pc = "return"
    /\ KeyFields(keyed.a) = KeyFields(keyed.b)
    /\ keyed.a.email # keyed.b.email
    /\ keyed.a.name # keyed.b.name
    /\ keyed.a.ms_event_id # keyed.b.ms_event_id
    /\ keyed.ka.raised = "none"
    /\ keyed.ka = keyed.kb
    /\ Len(keyed.ka.key) > 20

KeyReturned == keyed.pc \in {"return", "expanded"}
NonEmpty(parts) == SelectSeq(parts, LAMBDA c : c # <<>>)

\* C21 as stated: the key is series, topic, HH:MM, YYYY-MM-DD, the rrule
\* string and the sorted exclusion list, in this order, joined by '|' with
\* the empty ones left out; an occurrence whose rrule is None or '' and
\* that has no exclusions has neither of the last two.
C21_KeyComponentsInOrder ==
    (KeyReturned /\ keyed.ka.raised = "none") =>
        LET a == keyed.a
            st == extract_series_and_topic(
                      IF TitleTruthy(a.title) THEN a.title ELSE Title(Untitled))
            raw == IF a.rrule.null THEN <<>> ELSE str_rrule(a.rrule)
            parts == <<st.series, st.topic, get_time_slot_key(a.start_time.ts),
                       strftime_ymd(a.start_time.ts), raw,
                       str_excluded(a.rrule_ex_date)>>
        IN /\ keyed.ka.key = JoinWith(NonEmpty(parts), <<"|">>)
           /\ ((a.rrule.null \/ a.rrule = RruleEmpty)
                 /\ str_excluded(a.rrule_ex_date) = <<>>)
                => Len(NonEmpty(keyed.ka.key_parts)) <= 4

\* A title that is None, empty or made of blanks only.
BlankTitle(t) == t.null \/ \A i \in 1..Len(t.chars) : t.chars[i] = " "

\* C22 as stated: a title that is absent or blank counts as 'Untitled
\* Event', and series and topic are what stands before and after the first
\* ' - ' of the title, the topic being empty without one.
C22_BlankTitleIsUntitled ==
    (KeyReturned /\ keyed.ka.raised = "none") =>
        LET t == keyed.a.title
            n == IF BlankTitle(t) THEN Untitled
                 ELSE JoinWith(SplitWs(t.chars, 1, <<>>), <<" ">>)
            I == {i \in 1..(Len(n) - 2) : <<n[i], n[i + 1], n[i + 2]>> = <<" ", "-", " ">>}
        IN IF I = {}
           THEN /\ keyed.ka.key_parts[1] = n
                /\ keyed.ka.key_parts[2] = <<>>
           ELSE \E i \in I :
                   /\ \A j \in I : i <= j
                   /\ keyed.ka.key_parts[1] = SubSeq(n, 1, i - 1)
                   /\ keyed.ka.key_parts[2] = SubSeq(n, i + 3, Len(n))

\* HH:MM of a wall-clock reading.
HHMM(wall) ==
    LET h == (wall % Day) \div Hour
        m == ((wall % Day) % Hour) \div Minute
    IN <<Digit(h \div 10), Digit(h % 10), ":", Digit(m \div 10), Digit(m % 10)>>

KeyTuple(r) ==
    <<r.faculty_email, r.date, r.hours, r.description, r.course_name>>

Range(q) == {q[i] : i \in 1..Len(q)}
ReportKeys == {KeyTuple(n) : n \in Range(sync.new_records)}
FetchedKeys == {KeyTuple(e) : e \in Range(sync.existing_records)}

\* The run has computed what to delete and what to add; it has ended.
Compared == sync.pc \in {"syncing", "done"}
Done == sync.pc = "done"

\* The requests of one kind the run has sent, in order.
Sent(op) == SelectSeq(sync.requests, LAMBDA q : q.op = op)
SentIds == [i \in 1..Len(Sent("DELETE")) |-> Sent("DELETE")[i].id]

\* The fetched entries without a match, and the report records without one.
Unmatched == SelectSeq(sync.existing_records,
                       LAMBDA e : KeyTuple(e) \notin ReportKeys)
Missing == SelectSeq(sync.new_records,
                     LAMBDA n : KeyTuple(n) \notin FetchedKeys)

\* C27: process_reports deletes exactly the fetched entries whose key
\* (faculty_email, date, hours, description, course_name) is the key of no
\* report record and adds exactly the report records whose key is the key of
\* no fetched entry; an entry or record with a match on the other side is
\* neither deleted nor added.
C27_SymmetricDifference ==
    /\ Compared =>
         /\ sync.records_to_delete = [i \in 1..Len(Unmatched) |-> Unmatched[i].id]
         /\ sync.records_to_add = Missing
    /\ Done =>
         /\ SentIds = [i \in 1..Len(Unmatched) |-> Unmatched[i].id]
         /\ \A e \in Range(sync.existing_records) :
                KeyTuple(e) \in ReportKeys => e.id \notin Range(SentIds)
         /\ Sent("POST") = IF Missing = <<>> THEN <<>>
                           ELSE <<Sent("POST")[1]>>
         /\ Missing # <<>> => Sent("POST")[1].records = Missing
         /\ \A q \in Range(Sent("POST")) : \A n \in Range(q.records) :
                KeyTuple(n) \notin FetchedKeys

\* A run that deleted an entry, added a record and left a matched entry.
C27_Witness ==
    /\ Done
    /\ SentIds # <<>>
    /\ Sent("POST") # <<>>
    /\ \E e \in Range(sync.existing_records) : KeyTuple(e) \in ReportKeys
    /\ \E n \in Range(sync.new_records) : KeyTuple(n) \in FetchedKeys

\* C28: when every API call of a run succeeded, the next run with the same
\* reports, month and activity type, fetching the store that run left,
\* deletes nothing and adds nothing, also when the report has rows equal on
\* every key field.
C28_SecondRunIsQuiet ==
    (sync.pc # "idle" /\ sync.run > 1 /\ sync.prev_ok /\ sync.fetch_ok)
        => /\ Compared => /\ sync.records_to_delete = <<>>
                          /\ sync.records_to_add = <<>>
           /\ Sent("DELETE") = <<>>
           /\ Sent("POST") = <<>>

\* A second run after a first one that created two equal records.
C28_Witness ==
    /\ Done
    /\ sync.run = 2
    /\ sync.prev_ok
    /\ sync.fetch_ok
    /\ sync.created >= 2
    /\ Len(sync.new_records) >= 2
    /\ sync.new_records[1] = sync.new_records[2]

\* C29: within a run no delete request follows the add request; when the
\* run ends every id to delete has had its request, failed ones or not, and
\* the add request, sent whenever there is a record to add, carries the
\* records computed before the deletes.
C29_DeletesThenAdd ==
    /\ sync.pc # "idle" =>
         \A i \in 1..Len(sync.requests) : \A j \in 1..Len(sync.requests) :
            (sync.requests[i].op = "POST" /\ i < j)
                => sync.requests[j].op # "DELETE"
    /\ Done =>
         /\ SentIds = sync.records_to_delete
         /\ sync.records_to_add # <<>> =>
              /\ sync.requests[Len(sync.requests)].op = "POST"
              /\ sync.requests[Len(sync.requests)].records = Missing

\* A run where a delete failed, another delete followed and the add was
\* sent.
C29_Witness ==
    /\ Done
    /\ \E i \in 1..Len(sync.requests) : \E j \in 1..Len(sync.requests) :
          /\ i < j
          /\ sync.requests[i].op = "DELETE"
          /\ ~sync.requests[i].ok
          /\ sync.requests[j].op = "DELETE"
          /\ sync.requests[Len(sync.requests)].op = "POST"

\* The rows of the reports that carry the handler's activity type (every row
\* but the total of a report without the column).
RowsOfType(report_data) ==
    SelectSeq(report_data.report,
              LAMBDA r : /\ r.faculty_name # "Total"
                         /\ report_data.has_column
                                => r.activity_type = sync.activity_type)

RECURSIVE CountOfType(_)
CountOfType(faculty_reports) ==
    IF faculty_reports = <<>> THEN 0
    ELSE Len(RowsOfType(Head(faculty_reports)))
            + CountOfType(Tail(faculty_reports))

\* C30: when the fetch fails, existing_records is empty, no delete is
\* requested and every report record of the handler's activity type is
\* added, an equal entry in the store or not.
C30_FailedFetchAddsEverything ==
    (sync.pc # "idle" /\ ~sync.fetch_ok /\ Compared)
        => /\ sync.existing_records = <<>>
           /\ sync.records_to_delete = <<>>
           /\ Sent("DELETE") = <<>>
           /\ sync.records_to_add = sync.new_records
           /\ Len(sync.records_to_add) = CountOfType(sync.faculty_reports)
           /\ \A d \in Range(sync.faculty_reports) :
                \A r \in Range(RowsOfType(d)) :
                   \E n \in Range(sync.records_to_add) :
                      /\ n.faculty_email = d.email
                      /\ n.description = r.session_title
                      /\ n.hours = r.duration_hours
                      /\ n.date = SubSeq(r.start_time, 1, 10)
           /\ (Done /\ sync.new_records # <<>>)
                => Sent("POST")[1].records = sync.new_records

\* After a failed fetch the run added a record equal to an entry the store
\* already held.
C30_Witness ==
    /\ Done
    /\ ~sync.fetch_ok
    /\ Sent("POST") # <<>>
    /\ Sent("POST")[1].ok
    /\ \E e \in Range(sync.remote) : \E n \in Range(sync.records_to_add) :
          /\ e.id \in {"t1", "t2", "t3", "t4", "t5"}
          /\ KeyTuple(e) = KeyTuple(n)
          /\ e.activity_type = n.activity_type

============================================================================
